---- MODULE Spec2Model ----
(***************************************************************************)
(* Model of the local-first persistence layer of the HSK tutor             *)
(* (src/services/gemini.ts, lines 735-1546): an IndexedDB local store, a   *)
(* Firestore remote store, the permission circuit breaker, the timeout     *)
(* wrapper and the per-entity save/get operations.                         *)
(*                                                                         *)
(* One action models one exported operation from call to return.  The      *)
(* operations are awaited by their callers, so an action is the whole      *)
(* handler; what the environment decides (the outcome of each remote call  *)
(* and of the local store access) is an input of the action.               *)
(***************************************************************************)
EXTENDS Integers, Sequences, FiniteSets, TLC

VARIABLES
    user,           \* auth.currentUser is set (TRUE) or null (FALSE)
    cloudDisabled,  \* the circuit breaker
    now,            \* Date.now()
    dbPromise,      \* "unset" | "open" | "rejected"
    idb,            \* the on-disk IndexedDB database: version, schema, data
    cloud,          \* the Firestore collections of the user
    last,           \* the operation that ran last: arguments, calls, result
    prev,           \* a summary of the operation that ran before it
    budget,         \* how many more operations this run may start
    ui              \* component state: the RAM audio cache, the calls in flight

vars == <<user, cloudDisabled, now, dbPromise, idb, cloud, last, prev, budget,
          ui>>

----------------------------------------------------------------------------
(* Bounds *)

MaxTime == 2        \* Date.now() ranges over 1..MaxTime
MaxScore == 1       \* quiz and pronunciation scores 0..MaxScore
MaxImage == 1       \* custom images 1..MaxImage (0 is "no image")
MaxMinutes == 1     \* minutes added by one call: 1..MaxMinutes
MaxGoal == 1        \* goal values saved in a run: 2..MaxGoal + 1
MaxOps == 2         \* operations of one run
MaxAudio == 1       \* audio payloads of a run: 1..MaxAudio (0 is "no audio")
MaxChat == 1        \* new chat messages of a run: ChatLimit + 1 + (1..MaxChat)
DayLength == 2      \* clock ticks per calendar day

(* Program constants *)

DBVersion == 4
RecentLimit == 20
ChatLimit == 50
PronLimit == 10
DefaultDailyWords == 10
DefaultDailyMinutes == 15
DefaultDailySpeakingMinutes == 5
DefaultDailyPronunciation == 10

MAX_RETRIES == 3
INITIAL_DELAY == 1000

Undef == "undef"
Ratings == {"hard", "good", "easy"}
Bools == {"true", "false"}
Character == "c"    \* the vocabulary key the operations act on
Word == <<"w">>     \* a word is the sequence of its characters
OtherWord == <<"w", "_", "1">>

----------------------------------------------------------------------------
(* Helpers on functions used as keyed collections *)

Empty == <<>>

Put(f, k, v) == [x \in (DOMAIN f) \cup {k} |-> IF x = k THEN v ELSE f[x]]

Has(f, k) == k \in DOMAIN f

----------------------------------------------------------------------------
(* Outcomes of a remote call.  A message is modelled as the set of        *)
(* phrases it contains, so that String.includes is set membership.         *)

Outcome(c, m) == [code |-> c, message |-> m]

ResOk == Outcome("ok", {})
ResSlow == Outcome("slow", {})
ResHang == Outcome("hang", {})
ResPending == Outcome("pending", {})
ResSkipped == Outcome("skipped", {})

ErrPermission == Outcome("permission-denied",
                         {"Missing or insufficient permissions"})
ErrPermissionMsgOnly == Outcome("unknown",
                                {"Missing or insufficient permissions"})
ErrPermissionRtdb == Outcome("PERMISSION_DENIED", {"Permission denied"})
ErrUnavailable == Outcome("unavailable", {"client is offline"})
ErrTimeout == Outcome("timeout", {"Firestore operation timed out"})

RemoteErrors == {ErrPermission, ErrUnavailable}

(* Every error the classification of handleCloudError distinguishes. *)
AllRemoteErrors == {ErrPermission, ErrPermissionMsgOnly, ErrPermissionRtdb,
                    ErrUnavailable}

PermissionErrors == {ErrPermission, ErrPermissionMsgOnly, ErrPermissionRtdb}

TransientErrors == {ErrUnavailable, ErrTimeout}

(* What the transport does with a call: it resolves (ResOk), rejects with  *)
(* an error, resolves only after the timeout (ResSlow), or never resolves  *)
(* (ResHang).                                                              *)
Transport == {ResOk, ResSlow, ResHang} \cup RemoteErrors

AllTransport == {ResOk, ResSlow, ResHang} \cup AllRemoteErrors

(* The transport has a say only when the operation calls the remote store. *)
RemoteInputs == IF user /\ ~cloudDisabled THEN Transport ELSE {ResSkipped}

AllRemoteInputs == IF user /\ ~cloudDisabled THEN AllTransport ELSE {ResSkipped}

(* What the transport can do with a call that is awaited without a         *)
(* timeout: late or in time makes no difference to such a call.            *)
BareInputs ==
    IF user /\ ~cloudDisabled THEN {ResOk, ResHang} \cup RemoteErrors
    ELSE {ResSkipped}

(* The local path succeeds ("ok"), fails before it reads ("fail": the       *)
(* database or the transaction does not open) or fails when it writes      *)
(* ("failWrite": the quota is exhausted).                                  *)
LocalOutcomes == {"ok", "fail"}

WriteOutcomes == {"ok", "fail", "failWrite"}

(* A bare await of the promise: it never completes when the promise never  *)
(* resolves.                                                               *)
bareAwait(t) ==
    IF t = ResHang THEN ResPending
    ELSE IF t = ResSlow THEN ResOk
    ELSE t

(* withTimeout(promise, ms): what the awaiting caller observes.            *)
withTimeout(t) ==
    IF t \in {ResSlow, ResHang} THEN ErrTimeout ELSE t

(* Whether the write of a call reaches the remote store: the loser of the  *)
(* race is not cancelled, so a slow write still lands.                     *)
Lands(t) == t \in {ResOk, ResSlow}

IsError(r) == r \notin {ResOk, ResPending, ResSkipped}

(* Every error taken for a permission error. *)
isAnyError(e) == TRUE

isPermissionDenied(e) ==
    \/ "Missing or insufficient permissions" \in e.message
    \/ e.code = "permission-denied"
    \/ "Permission denied" \in e.message

(* handleCloudError(e, context): the new value of cloudDisabled.           *)
handleCloudError(e, disabled) ==
    IF isPermissionDenied(e) THEN TRUE ELSE disabled

(* The breaker after awaiting a call with observed result r.               *)
AfterCall(r, disabled) ==
    IF IsError(r) THEN handleCloudError(r, disabled) ELSE disabled

(* The record of one remote call: the collection called, what the caller   *)
(* observed, and the breaker when the call was issued.                     *)
Call(family, r, disabled) ==
    [family |-> family, result |-> r, open |-> disabled]

----------------------------------------------------------------------------
(* The local store: IndexedDB database 'hsk-tutor-db'.                     *)

StoreNames == {"results", "vocabulary", "pronunciation_history",
               "daily_stats", "user_goals", "global_audio"}

AbortedDB == [version |-> -1, schema |-> Empty, data |-> Empty]

(* db.createObjectStore(name) followed by createIndex for each index.      *)
(* Creating a store that exists throws, which aborts the upgrade.          *)
createObjectStore(d, name, indexes) ==
    IF d = AbortedDB THEN AbortedDB
    ELSE IF name \in DOMAIN d.schema THEN AbortedDB
    ELSE [d EXCEPT !.schema = Put(d.schema, name, indexes),
                   !.data = Put(d.data, name, Empty)]

(* A step that is not guarded by the old version. *)
unguardedStep(d, oldVersion, v, name, indexes) ==
    createObjectStore(d, name, indexes)

upgradeStep(d, oldVersion, v, name, indexes) ==
    IF oldVersion < v THEN createObjectStore(d, name, indexes) ELSE d

(* The upgrade callback of openDB('hsk-tutor-db', 4, {upgrade}).           *)
upgrade(d, oldVersion) ==
    LET d1 == upgradeStep(d, oldVersion, 1, "results", {"by-date"})
        d2 == upgradeStep(d1, oldVersion, 1, "vocabulary", {})
        d3 == upgradeStep(d2, oldVersion, 2, "pronunciation_history",
                          {"by-word", "by-timestamp"})
        d4 == upgradeStep(d3, oldVersion, 3, "daily_stats", {})
        d5 == upgradeStep(d4, oldVersion, 3, "user_goals", {})
        d6 == upgradeStep(d5, oldVersion, 4, "global_audio", {})
    IN  d6

(* openDB: runs the upgrade when the stored version is older; an aborted   *)
(* upgrade leaves the database as it was and rejects the promise.          *)
openDB(d) ==
    IF d.version < DBVersion
    THEN LET u == upgrade(d, d.version)
         IN  IF u = AbortedDB THEN [promise |-> "rejected", db |-> d]
             ELSE [promise |-> "open", db |-> [u EXCEPT !.version = DBVersion]]
    ELSE [promise |-> "open", db |-> d]

(* initDB(): opens the database once and reuses the promise afterwards.    *)
initDB(p, d) ==
    IF p = "unset" THEN openDB(d) ELSE [promise |-> p, db |-> d]

(* The release of the program that introduced each object store.           *)
StoreSince == [results |-> 1, vocabulary |-> 1, pronunciation_history |-> 2,
               daily_stats |-> 3, user_goals |-> 3, global_audio |-> 4]

StoreIndexes == [results |-> {"by-date"}, vocabulary |-> {},
                 pronunciation_history |-> {"by-word", "by-timestamp"},
                 daily_stats |-> {}, user_goals |-> {}, global_audio |-> {}]

(* The empty database an earlier release of the program left on disk.      *)
DatabaseAt(v) ==
    LET names == {n \in StoreNames : StoreSince[n] <= v}
    IN  [version |-> v,
         schema |-> [n \in names |-> StoreIndexes[n]],
         data |-> [n \in names |-> Empty]]

(* The local path of an operation: initDB, then the access itself, which   *)
(* throws when the store access fails or the database did not open.        *)
LocalOk(o, lo) == o.promise = "open" /\ lo = "ok"

(* The collection as the operation sees it after initDB. *)
Local(o, name) == o.db.data[name]

WriteLocal(o, name, contents) == [o.db EXCEPT !.data[name] = contents]

----------------------------------------------------------------------------
(* The remote store: the Firestore collections under users/{uid}.          *)

EmptyCloud == [results |-> Empty, vocabulary |-> Empty,
               pronunciation_history |-> Empty, daily_stats |-> Empty,
               settings |-> Empty, chat_history |-> Empty,
               global_audio_cache |-> <<>>]

----------------------------------------------------------------------------
(* The record of the operation that ran last.                              *)

(* The component state before anything is played or started. *)
NoUI == [audioCache |-> Empty, tasks |-> <<>>]

NoOp == [op |-> "none", args |-> Empty, calls |-> <<>>, local |-> "skipped",
         returned |-> TRUE, ret |-> Empty]

Done(op, args, calls, local, ret) ==
    [op |-> op, args |-> args, calls |-> calls, local |-> local,
     returned |-> TRUE, ret |-> ret]

(* What is kept of the operation before the last one: its name, what its   *)
(* first remote call returned, what its local path did and, for a          *)
(* saveResult or an initDB, its argument.                                  *)
Summary(l) == [op |-> l.op,
               remote |-> IF l.calls = <<>> THEN "skipped"
                          ELSE l.calls[1].result.code,
               local |-> l.local,
               args |-> IF l.op \in {"saveResult", "initDB"} THEN l.args
                        ELSE Empty]

(* A call starts: it uses up one unit of the budget of the run, and the    *)
(* operation that ran last becomes the previous one.                       *)
Begun ==
    /\ budget > 0
    /\ budget' = budget - 1
    /\ prev' = Summary(last)

(* An operation of the persistence layer leaves the component state alone. *)
Started ==
    /\ Begun
    /\ UNCHANGED ui

(* What the local path did: "skipped", "ok" or "fail". *)
LocalResult(used, ok) == IF ~used THEN "skipped" ELSE IF ok THEN "ok" ELSE "fail"

----------------------------------------------------------------------------
(* Results API *)

(* savedToCloud = true is reached only when the awaited write resolved.    *)
savedToCloud(attempt, r) == attempt /\ r = ResOk

(* A result record is {type, score, total, level, date, timestamp}; only   *)
(* score and timestamp are modelled, the other fields are stored as given. *)

Reverse(q) == [i \in 1..Len(q) |-> q[Len(q) + 1 - i]]

AtTime(recs, k) == LET IsAt(r) == r.timestamp = k IN SelectSeq(recs, IsAt)

(* The records in index order, from timestamp k down: newest timestamp     *)
(* first; equal timestamps in descending (tieDesc) or ascending key order. *)
RECURSIVE Descending(_, _, _)
Descending(recs, k, tieDesc) ==
    IF k < 0 THEN <<>>
    ELSE (IF tieDesc THEN Reverse(AtTime(recs, k)) ELSE AtTime(recs, k))
         \o Descending(recs, k - 1, tieDesc)

(* A query without its limit. *)
NoLimit(q, n) == q

Limit(q, n) == SubSeq(q, 1, IF Len(q) < n THEN Len(q) ELSE n)

(* resultsRef.orderBy('timestamp', 'desc').limit(20): documents with equal *)
(* timestamps come in the order of their generated ids, either way.        *)
QueryRecent(recs, tieDesc) ==
    Limit(Descending(recs, MaxTime, tieDesc), RecentLimit)

(* The cursor opened in direction 'next': oldest first. *)
CursorOldest(recs) ==
    Limit(Reverse(Descending(recs, MaxTime, TRUE)), RecentLimit)

(* index('by-date').openCursor(null, 'prev') read while count < 20: the    *)
(* index orders by timestamp, then by primary key.                         *)
CursorRecent(recs) ==
    Limit(Descending(recs, MaxTime, TRUE), RecentLimit)

saveResult(score, t, lo) ==
    LET data == [score |-> score, timestamp |-> now]
        attempt == user /\ ~cloudDisabled
        r == IF attempt THEN withTimeout(t) ELSE ResSkipped
        saved == savedToCloud(attempt, r)
        o == IF saved THEN [promise |-> dbPromise, db |-> idb]
             ELSE initDB(dbPromise, idb)
        localOk == ~saved /\ LocalOk(o, lo)
    IN  /\ Started
        /\ cloud' = IF attempt /\ Lands(t)
                    THEN [cloud EXCEPT !.results = Append(@, data)]
                    ELSE cloud
        /\ cloudDisabled' = IF attempt THEN AfterCall(r, cloudDisabled)
                            ELSE cloudDisabled
        /\ dbPromise' = o.promise
        /\ idb' = IF localOk
                  THEN WriteLocal(o, "results", Append(Local(o, "results"), data))
                  ELSE o.db
        /\ last' = Done("saveResult", data,
                        IF attempt
                        THEN <<Call("results", r, cloudDisabled)>> ELSE <<>>,
                        LocalResult(~saved, localOk), Empty)
        /\ UNCHANGED <<user, now>>

(* fetchedFromCloud = true is reached only when the awaited read resolved. *)
fetchedFromCloud(attempt, r) == attempt /\ r = ResOk

getRecentResults(t, tieDesc, lo) ==
    LET attempt == user /\ ~cloudDisabled
        r == IF attempt THEN withTimeout(t) ELSE ResSkipped
        fetched == fetchedFromCloud(attempt, r)
        o == IF fetched THEN [promise |-> dbPromise, db |-> idb]
             ELSE initDB(dbPromise, idb)
        localOk == ~fetched /\ LocalOk(o, lo)
        results == IF fetched THEN QueryRecent(cloud.results, tieDesc)
                   ELSE IF localOk THEN CursorRecent(Local(o, "results"))
                   ELSE <<>>
    IN  /\ Started
        /\ cloudDisabled' = IF attempt THEN AfterCall(r, cloudDisabled)
                            ELSE cloudDisabled
        /\ dbPromise' = o.promise
        /\ idb' = o.db
        /\ last' = Done("getRecentResults", Empty,
                        IF attempt
                        THEN <<Call("results", r, cloudDisabled)>> ELSE <<>>,
                        LocalResult(~fetched, localOk), results)
        /\ UNCHANGED <<user, now, cloud>>

----------------------------------------------------------------------------
(* Vocabulary API *)

(* A stored vocabulary record is modelled by the fields the operations     *)
(* treat differently: rating, bookmarked, customImage and lastReviewed.    *)
(* The descriptive fields (pinyin, translation, example...) are copied     *)
(* from the card by every write and are left out.  A field that is absent  *)
(* or undefined is Undef (rating, bookmarked), NoImage or NoTime.          *)

NoImage == 0
NoTime == -1

Images == 1..MaxImage

(* The card copy a UI surface passes in. *)
Cards == [bookmarked : Bools \cup {Undef}, customImage : {NoImage} \cup Images]

(* !card.bookmarked *)
Not(b) == IF b = "true" THEN "false" ELSE "true"

(* existingBookmarked || false, and !!existing.bookmarked *)
Truthy(b) == IF b = "true" THEN "true" ELSE "false"

(* A set without { merge: true }: the document is replaced. *)
setOverwrite(docs, key, data) == Put(docs, key, data)

(* A set that deletes the document of a card that is un-bookmarked.        *)
setOrDelete(docs, key, data) ==
    IF data.bookmarked = "false"
    THEN [k \in (DOMAIN docs) \ {key} |-> docs[k]]
    ELSE Put(docs, key, data)

(* A set that only creates: a document that exists is left as it is.       *)
setIfMissing(docs, key, data) ==
    IF Has(docs, key) THEN docs ELSE Put(docs, key, data)

(* docRef.set(data, { merge: true }): the fields of data replace those of  *)
(* the stored document, the other stored fields stay.  A field whose value *)
(* is undefined is not written.                                            *)
setMerge(docs, key, data) ==
    LET old == IF Has(docs, key) THEN docs[key]
               ELSE [rating |-> Undef, bookmarked |-> Undef,
                     customImage |-> NoImage, lastReviewed |-> NoTime]
        new == [rating |-> IF data.rating /= Undef
                           THEN data.rating ELSE old.rating,
                bookmarked |-> IF data.bookmarked /= Undef
                               THEN data.bookmarked ELSE old.bookmarked,
                customImage |-> IF data.customImage /= NoImage
                                THEN data.customImage ELSE old.customImage,
                lastReviewed |-> IF data.lastReviewed /= NoTime
                                 THEN data.lastReviewed ELSE old.lastReviewed]
    IN  Put(docs, key, new)

saveVocabCustomImage(card, imageBase64, t, lo) ==
    LET dataToMerge == [rating |-> Undef, bookmarked |-> Undef,
                        customImage |-> imageBase64, lastReviewed |-> NoTime]
        attempt == user /\ ~cloudDisabled
        r == IF attempt THEN withTimeout(t) ELSE ResSkipped
        o == initDB(dbPromise, idb)
        localOk == LocalOk(o, lo)
        store == Local(o, "vocabulary")
        existing == store[Character]
        \* { ...card, ...(existing || {}), customImage: imageBase64 }
        merged == IF Has(store, Character)
                  THEN [existing EXCEPT
                          !.bookmarked = IF existing.bookmarked /= Undef
                                         THEN existing.bookmarked
                                         ELSE card.bookmarked,
                          !.customImage = imageBase64]
                  ELSE [rating |-> Undef, bookmarked |-> card.bookmarked,
                        customImage |-> imageBase64, lastReviewed |-> NoTime]
    IN  /\ Started
        /\ cloud' = IF attempt /\ Lands(t)
                    THEN [cloud EXCEPT
                            !.vocabulary = setMerge(@, Character, dataToMerge)]
                    ELSE cloud
        /\ cloudDisabled' = IF attempt THEN AfterCall(r, cloudDisabled)
                            ELSE cloudDisabled
        /\ dbPromise' = o.promise
        /\ idb' = IF localOk
                  THEN WriteLocal(o, "vocabulary", Put(store, Character, merged))
                  ELSE o.db
        /\ last' = Done("saveVocabCustomImage",
                        [card |-> card, value |-> imageBase64],
                        IF attempt
                        THEN <<Call("vocabulary", r, cloudDisabled)>> ELSE <<>>,
                        LocalResult(TRUE, localOk), Empty)
        /\ UNCHANGED <<user, now>>

saveVocabProgress(card, rating, t, lo) ==
    LET \* Optimistic local check for existing data if card prop is missing it
        check == card.customImage = NoImage \/ card.bookmarked = Undef
        o1 == IF check THEN initDB(dbPromise, idb)
              ELSE [promise |-> dbPromise, db |-> idb]
        found == check /\ LocalOk(o1, lo) /\ Has(Local(o1, "vocabulary"), Character)
        localExisting == Local(o1, "vocabulary")[Character]
        existingCustomImage ==
            IF found /\ card.customImage = NoImage
            THEN localExisting.customImage ELSE card.customImage
        existingBookmarked ==
            IF found /\ card.bookmarked = Undef
            THEN localExisting.bookmarked ELSE card.bookmarked
        vocabData == [rating |-> rating,
                      bookmarked |-> Truthy(existingBookmarked),
                      customImage |-> existingCustomImage,
                      lastReviewed |-> now]
        attempt == user /\ ~cloudDisabled
        r == IF attempt THEN withTimeout(t) ELSE ResSkipped
        saved == savedToCloud(attempt, r)
        o == IF saved THEN o1 ELSE initDB(o1.promise, o1.db)
        localOk == ~saved /\ LocalOk(o, lo)
    IN  /\ Started
        /\ cloud' = IF attempt /\ Lands(t)
                    THEN [cloud EXCEPT
                            !.vocabulary = setMerge(@, Character, vocabData)]
                    ELSE cloud
        /\ cloudDisabled' = IF attempt THEN AfterCall(r, cloudDisabled)
                            ELSE cloudDisabled
        /\ dbPromise' = o.promise
        /\ idb' = IF localOk
                  THEN WriteLocal(o, "vocabulary",
                                  Put(Local(o, "vocabulary"), Character, vocabData))
                  ELSE o.db
        /\ last' = Done("saveVocabProgress",
                        [card |-> card, value |-> rating],
                        IF attempt
                        THEN <<Call("vocabulary", r, cloudDisabled)>> ELSE <<>>,
                        LocalResult(~saved, localOk), Empty)
        /\ UNCHANGED <<user, now>>

(* let newBookmarkState = !card.bookmarked *)
initialBookmarkState(card) == Not(card.bookmarked)

toggleVocabBookmark(card, t, lo) ==
    LET attempt == user /\ ~cloudDisabled
        updateData == [rating |-> Undef,
                       bookmarked |-> initialBookmarkState(card),
                       customImage |-> NoImage, lastReviewed |-> now]
        r == IF attempt THEN withTimeout(t) ELSE ResSkipped
        saved == savedToCloud(attempt, r)
        o == IF saved THEN [promise |-> dbPromise, db |-> idb]
             ELSE initDB(dbPromise, idb)
        \* the transaction and the read succeed unless the store fails to open
        readOk == ~saved /\ o.promise = "open" /\ lo /= "fail"
        localOk == ~saved /\ LocalOk(o, lo)
        store == Local(o, "vocabulary")
        hasExisting == Has(store, Character)
        existing == store[Character]
        currentState == IF hasExisting THEN Truthy(existing.bookmarked)
                        ELSE card.bookmarked
        newBookmarkState == IF readOk THEN Not(currentState)
                            ELSE initialBookmarkState(card)
        record == [rating |-> IF hasExisting THEN existing.rating ELSE Undef,
                   bookmarked |-> newBookmarkState,
                   customImage |-> IF hasExisting THEN existing.customImage
                                   ELSE NoImage,
                   lastReviewed |-> now]
    IN  /\ Started
        /\ cloud' = IF attempt /\ Lands(t)
                    THEN [cloud EXCEPT
                            !.vocabulary = setMerge(@, Character, updateData)]
                    ELSE cloud
        /\ cloudDisabled' = IF attempt THEN AfterCall(r, cloudDisabled)
                            ELSE cloudDisabled
        /\ dbPromise' = o.promise
        /\ idb' = IF localOk
                  THEN WriteLocal(o, "vocabulary", Put(store, Character, record))
                  ELSE o.db
        /\ last' = Done("toggleVocabBookmark",
                        [card |-> card],
                        IF attempt
                        THEN <<Call("vocabulary", r, cloudDisabled)>> ELSE <<>>,
                        LocalResult(~saved, localOk), newBookmarkState)
        /\ UNCHANGED <<user, now>>

----------------------------------------------------------------------------
(* Goals *)

GoalFields == {"dailyWords", "dailyMinutes", "dailySpeakingMinutes",
               "dailyPronunciation"}

defaultGoals == [dailyWords |-> DefaultDailyWords,
                 dailyMinutes |-> DefaultDailyMinutes,
                 dailySpeakingMinutes |-> DefaultDailySpeakingMinutes,
                 dailyPronunciation |-> DefaultDailyPronunciation]

(* The defaults alone, whatever is saved. *)
defaultsAlone(data) == defaultGoals

(* { ...defaultGoals, ...data }: the saved fields over the defaults.       *)
withDefaults(data) ==
    [f \in GoalFields |-> IF f \in DOMAIN data THEN data[f] ELSE defaultGoals[f]]

(* A result that was never delivered, because the operation never returned. *)
NoReturn == Empty

Pending(op, args, calls, local) ==
    [op |-> op, args |-> args, calls |-> calls, local |-> local,
     returned |-> FALSE, ret |-> NoReturn]

saveUserGoals(goals, t, lo) ==
    LET attempt == user /\ ~cloudDisabled
        r == IF attempt THEN bareAwait(t) ELSE ResSkipped
        blocked == r = ResPending
        o == IF blocked THEN [promise |-> dbPromise, db |-> idb]
             ELSE initDB(dbPromise, idb)
        localOk == ~blocked /\ LocalOk(o, lo)
        calls == IF attempt THEN <<Call("settings", r, cloudDisabled)>> ELSE <<>>
    IN  /\ Started
        /\ cloud' = IF attempt /\ Lands(t)
                    THEN [cloud EXCEPT !.settings = Put(@, "goals", goals)]
                    ELSE cloud
        /\ cloudDisabled' = IF attempt THEN AfterCall(r, cloudDisabled)
                            ELSE cloudDisabled
        /\ dbPromise' = o.promise
        /\ idb' = IF localOk
                  THEN WriteLocal(o, "user_goals",
                                  Put(Local(o, "user_goals"), "goals", goals))
                  ELSE o.db
        /\ last' = IF blocked
                   THEN Pending("saveUserGoals", goals, calls, "skipped")
                   ELSE Done("saveUserGoals", goals, calls,
                             LocalResult(TRUE, localOk), Empty)
        /\ UNCHANGED <<user, now>>

getUserGoals(t, lo) ==
    LET attempt == user /\ ~cloudDisabled
        r == IF attempt THEN bareAwait(t) ELSE ResSkipped
        blocked == r = ResPending
        fromCloud == attempt /\ r = ResOk /\ Has(cloud.settings, "goals")
        useLocal == ~blocked /\ ~fromCloud
        o == IF useLocal THEN initDB(dbPromise, idb)
             ELSE [promise |-> dbPromise, db |-> idb]
        localOk == useLocal /\ LocalOk(o, lo)
        fromLocal == localOk /\ Has(Local(o, "user_goals"), "goals")
        goals == IF fromCloud THEN withDefaults(cloud.settings["goals"])
                 ELSE IF fromLocal
                      THEN withDefaults(Local(o, "user_goals")["goals"])
                 ELSE defaultGoals
        calls == IF attempt THEN <<Call("settings", r, cloudDisabled)>> ELSE <<>>
    IN  /\ Started
        /\ cloudDisabled' = IF attempt THEN AfterCall(r, cloudDisabled)
                            ELSE cloudDisabled
        /\ dbPromise' = o.promise
        /\ idb' = o.db
        /\ last' = IF blocked
                   THEN Pending("getUserGoals", Empty, calls, "skipped")
                   ELSE Done("getUserGoals", Empty, calls,
                             LocalResult(useLocal, localOk), goals)
        /\ UNCHANGED <<user, now, cloud>>

(* A call of the exported initDB on its own. *)
InitDB ==
    LET o == initDB(dbPromise, idb)
    IN  /\ Started
        /\ dbPromise' = o.promise
        /\ idb' = o.db
        /\ last' = Done("initDB", [oldVersion |-> idb.version], <<>>,
                        LocalResult(TRUE, o.promise = "open"), Empty)
        /\ UNCHANGED <<user, cloudDisabled, now, cloud>>

(* The page is reloaded: the module state starts afresh, the stores stay.  *)
Reload ==
    /\ Started
    /\ dbPromise' = "unset"
    /\ cloudDisabled' = FALSE
    /\ last' = Done("reload", Empty, <<>>, "skipped", Empty)
    /\ UNCHANGED <<user, now, idb, cloud>>

----------------------------------------------------------------------------
(* Pronunciation history and daily statistics *)

(* One key for every day. *)
sameDay(time) == 0

(* new Date().toISOString().split('T')[0]: the day the clock is in.        *)
dateKey(time) == time \div DayLength

(* new Date(dateKey).getTime(): the first instant of that day.             *)
startOfDay(time) == dateKey(time) * DayLength

(* current?.minutes || 0 *)
OrZero(doc, f) == IF f \in DOMAIN doc THEN doc[f] ELSE 0

(* docRef.set(data, { merge: true }) on a document of named fields.        *)
setMergeDoc(docs, key, data) ==
    LET old == IF Has(docs, key) THEN docs[key] ELSE Empty
    IN  Put(docs, key,
            [f \in DOMAIN old \cup DOMAIN data |->
                IF f \in DOMAIN data THEN data[f] ELSE old[f]])

(* The number of documents a where(field, ">=", since) query returns.      *)
CountSince(docs, field, since) ==
    Cardinality({k \in DOMAIN docs : docs[k][field] >= since})

(* One key for all the attempts of a word. *)
wordKey(word, timestamp) == word

(* `${attempt.word}_${attempt.timestamp}` *)
attemptId(word, timestamp) == word \o <<"_", ToString(timestamp)>>

savePronunciationAttempt(attempt, t, lo) ==
    LET id == attemptId(attempt.word, attempt.timestamp)
        data == [word |-> attempt.word, timestamp |-> attempt.timestamp,
                 score |-> attempt.score, id |-> id]
        attemptCloud == user /\ ~cloudDisabled
        r == IF attemptCloud THEN bareAwait(t) ELSE ResSkipped
        blocked == r = ResPending
        o == IF blocked THEN [promise |-> dbPromise, db |-> idb]
             ELSE initDB(dbPromise, idb)
        localOk == ~blocked /\ LocalOk(o, lo)
        calls == IF attemptCloud
                 THEN <<Call("pronunciation_history", r, cloudDisabled)>>
                 ELSE <<>>
    IN  /\ Started
        /\ cloud' = IF attemptCloud /\ Lands(t)
                    THEN [cloud EXCEPT !.pronunciation_history = Put(@, id, data)]
                    ELSE cloud
        /\ cloudDisabled' = IF attemptCloud THEN AfterCall(r, cloudDisabled)
                            ELSE cloudDisabled
        /\ dbPromise' = o.promise
        /\ idb' = IF localOk
                  THEN WriteLocal(o, "pronunciation_history",
                                  Put(Local(o, "pronunciation_history"), id, data))
                  ELSE o.db
        /\ last' = IF blocked
                   THEN Pending("savePronunciationAttempt", attempt, calls, "skipped")
                   ELSE Done("savePronunciationAttempt", attempt, calls,
                             LocalResult(TRUE, localOk), Empty)
        /\ UNCHANGED <<user, now>>

updateStudyTime(minutes, t1, t2, lo) ==
    LET key == dateKey(now)
        attempt == user /\ ~cloudDisabled
        r1 == IF attempt THEN bareAwait(t1) ELSE ResSkipped
        writes == attempt /\ r1 = ResOk
        r2 == IF writes THEN bareAwait(t2) ELSE ResSkipped
        blocked == r1 = ResPending \/ r2 = ResPending
        current == IF Has(cloud.daily_stats, key) THEN cloud.daily_stats[key]
                   ELSE Empty
        data == [f \in DOMAIN current \cup {"date", "minutes"} |->
                    IF f = "date" THEN key
                    ELSE IF f = "minutes" THEN OrZero(current, "minutes") + minutes
                    ELSE current[f]]
        d1 == IF attempt THEN AfterCall(r1, cloudDisabled) ELSE cloudDisabled
        d2 == IF writes THEN AfterCall(r2, d1) ELSE d1
        calls == IF ~attempt THEN <<>>
                 ELSE IF ~writes THEN <<Call("daily_stats", r1, cloudDisabled)>>
                 ELSE <<Call("daily_stats", r1, cloudDisabled),
                        Call("daily_stats", r2, d1)>>
        o == IF blocked THEN [promise |-> dbPromise, db |-> idb]
             ELSE initDB(dbPromise, idb)
        localOk == ~blocked /\ LocalOk(o, lo)
        stats == Local(o, "daily_stats")
        existing == IF Has(stats, key) THEN stats[key] ELSE Empty
        currentMinutes == OrZero(existing, "minutes")
        currentSpeaking == OrZero(existing, "speakingMinutes")
    IN  /\ Started
        /\ cloud' = IF writes /\ Lands(t2)
                    THEN [cloud EXCEPT !.daily_stats = setMergeDoc(@, key, data)]
                    ELSE cloud
        /\ cloudDisabled' = d2
        /\ dbPromise' = o.promise
        /\ idb' = IF localOk
                  THEN WriteLocal(o, "daily_stats",
                           Put(stats, key,
                               [date |-> key,
                                minutes |-> currentMinutes + minutes,
                                speakingMinutes |-> currentSpeaking]))
                  ELSE o.db
        /\ last' = IF blocked
                   THEN Pending("updateStudyTime", [minutes |-> minutes],
                                calls, "skipped")
                   ELSE Done("updateStudyTime", [minutes |-> minutes], calls,
                             LocalResult(TRUE, localOk), Empty)
        /\ UNCHANGED <<user, now>>

updateSpeakingTime(minutes, t1, t2, lo) ==
    LET key == dateKey(now)
        attempt == user /\ ~cloudDisabled
        r1 == IF attempt THEN bareAwait(t1) ELSE ResSkipped
        writes == attempt /\ r1 = ResOk
        r2 == IF writes THEN bareAwait(t2) ELSE ResSkipped
        blocked == r1 = ResPending \/ r2 = ResPending
        current == IF Has(cloud.daily_stats, key) THEN cloud.daily_stats[key]
                   ELSE Empty
        data == [f \in DOMAIN current \cup {"date", "speakingMinutes"} |->
                    IF f = "date" THEN key
                    ELSE IF f = "speakingMinutes"
                         THEN OrZero(current, "speakingMinutes") + minutes
                    ELSE current[f]]
        d1 == IF attempt THEN AfterCall(r1, cloudDisabled) ELSE cloudDisabled
        d2 == IF writes THEN AfterCall(r2, d1) ELSE d1
        calls == IF ~attempt THEN <<>>
                 ELSE IF ~writes THEN <<Call("daily_stats", r1, cloudDisabled)>>
                 ELSE <<Call("daily_stats", r1, cloudDisabled),
                        Call("daily_stats", r2, d1)>>
        o == IF blocked THEN [promise |-> dbPromise, db |-> idb]
             ELSE initDB(dbPromise, idb)
        localOk == ~blocked /\ LocalOk(o, lo)
        stats == Local(o, "daily_stats")
        existing == IF Has(stats, key) THEN stats[key] ELSE Empty
        currentMinutes == OrZero(existing, "minutes")
        currentSpeaking == OrZero(existing, "speakingMinutes")
    IN  /\ Started
        /\ cloud' = IF writes /\ Lands(t2)
                    THEN [cloud EXCEPT !.daily_stats = setMergeDoc(@, key, data)]
                    ELSE cloud
        /\ cloudDisabled' = d2
        /\ dbPromise' = o.promise
        /\ idb' = IF localOk
                  THEN WriteLocal(o, "daily_stats",
                           Put(stats, key,
                               [date |-> key,
                                minutes |-> currentMinutes,
                                speakingMinutes |-> currentSpeaking + minutes]))
                  ELSE o.db
        /\ last' = IF blocked
                   THEN Pending("updateSpeakingTime", [minutes |-> minutes],
                                calls, "skipped")
                   ELSE Done("updateSpeakingTime", [minutes |-> minutes], calls,
                             LocalResult(TRUE, localOk), Empty)
        /\ UNCHANGED <<user, now>>

getDailyProgress(t1, t2, t3, lo) ==
    LET key == dateKey(now)
        since == startOfDay(now)
        (* 1. the time statistics *)
        attempt1 == user /\ ~cloudDisabled
        r1 == IF attempt1 THEN bareAwait(t1) ELSE ResSkipped
        d1 == IF attempt1 THEN AfterCall(r1, cloudDisabled) ELSE cloudDisabled
        (* 2. the words and the attempts of the day *)
        attempt2 == r1 /= ResPending /\ user /\ ~d1
        r2 == IF attempt2 THEN bareAwait(t2) ELSE ResSkipped
        d2 == IF attempt2 THEN AfterCall(r2, d1) ELSE d1
        attempt3 == attempt2 /\ r2 /= ResPending
        r3 == IF attempt3 THEN bareAwait(t3) ELSE ResSkipped
        d3 == IF attempt3 THEN AfterCall(r3, d2) ELSE d2
        blocked == ResPending \in {r1, r2, r3}
        calls == (IF attempt1 THEN <<Call("daily_stats", r1, cloudDisabled)>>
                  ELSE <<>>)
                 \o (IF attempt2 THEN <<Call("vocabulary", r2, d1)>> ELSE <<>>)
                 \o (IF attempt3 THEN <<Call("pronunciation_history", r3, d2)>>
                     ELSE <<>>)
        cloudStat == IF attempt1 /\ r1 = ResOk /\ Has(cloud.daily_stats, key)
                     THEN cloud.daily_stats[key] ELSE Empty
        cloudWords == IF attempt2 /\ r2 = ResOk
                      THEN CountSince(cloud.vocabulary, "lastReviewed", since)
                      ELSE 0
        cloudPron == IF attempt3 /\ r3 = ResOk
                     THEN CountSince(cloud.pronunciation_history, "timestamp", since)
                     ELSE 0
        (* 3. the local store *)
        useLocal == ~blocked /\ (~attempt1 \/ cloudWords = 0 \/ cloudPron = 0)
        o == IF useLocal THEN initDB(dbPromise, idb)
             ELSE [promise |-> dbPromise, db |-> idb]
        localOk == useLocal /\ LocalOk(o, lo)
        localStat == IF ~attempt1 /\ localOk /\ Has(Local(o, "daily_stats"), key)
                     THEN Local(o, "daily_stats")[key] ELSE Empty
        stat == IF attempt1 THEN cloudStat ELSE localStat
        words == IF cloudWords = 0 /\ localOk
                 THEN CountSince(Local(o, "vocabulary"), "lastReviewed", since)
                 ELSE cloudWords
        pronCount == IF cloudPron = 0 /\ localOk
                     THEN CountSince(Local(o, "pronunciation_history"),
                                     "timestamp", since)
                     ELSE cloudPron
    IN  /\ Started
        /\ cloudDisabled' = d3
        /\ dbPromise' = o.promise
        /\ idb' = o.db
        /\ last' = IF blocked
                   THEN Pending("getDailyProgress", Empty, calls, "skipped")
                   ELSE Done("getDailyProgress", Empty, calls,
                             LocalResult(useLocal, localOk),
                             [minutesSpent |-> OrZero(stat, "minutes"),
                              wordsReviewed |-> words,
                              speakingMinutes |-> OrZero(stat, "speakingMinutes"),
                              pronunciationCount |-> pronCount])
        /\ UNCHANGED <<user, now, cloud>>

(* The oldest timestamp an attempt of an earlier session carries. *)
OldestAttempt == 0 - (PronLimit + 1)

RECURSIVE AsSequence(_)
AsSequence(S) ==
    IF S = {} THEN <<>>
    ELSE LET x == CHOOSE y \in S : TRUE IN <<x>> \o AsSequence(S \ {x})

(* where("word", "==", word).orderBy("timestamp", "desc"), and the local   *)
(* getAllFromIndex('by-word', word) sorted by b.timestamp - a.timestamp:   *)
(* the attempts of the word from timestamp k down.                         *)
RECURSIVE attemptsOf(_, _, _)
attemptsOf(docs, word, k) ==
    IF k < OldestAttempt THEN <<>>
    ELSE AsSequence({docs[key] : key \in
                        {c \in DOMAIN docs : /\ docs[c].word = word
                                             /\ docs[c].timestamp = k}})
         \o attemptsOf(docs, word, k - 1)

getPronunciationHistory(word, t, lo) ==
    LET attempt == user /\ ~cloudDisabled
        r == IF attempt THEN bareAwait(t) ELSE ResSkipped
        blocked == r = ResPending
        fromCloud == IF attempt /\ r = ResOk
                     THEN Limit(attemptsOf(cloud.pronunciation_history, word,
                                           MaxTime), PronLimit)
                     ELSE <<>>
        useLocal == ~blocked /\ Len(fromCloud) = 0
        o == IF useLocal THEN initDB(dbPromise, idb)
             ELSE [promise |-> dbPromise, db |-> idb]
        localOk == useLocal /\ LocalOk(o, lo)
        results == IF localOk
                   THEN Limit(attemptsOf(Local(o, "pronunciation_history"),
                                         word, MaxTime), PronLimit)
                   ELSE fromCloud
        calls == IF attempt
                 THEN <<Call("pronunciation_history", r, cloudDisabled)>>
                 ELSE <<>>
    IN  /\ Started
        /\ cloudDisabled' = IF attempt THEN AfterCall(r, cloudDisabled)
                            ELSE cloudDisabled
        /\ dbPromise' = o.promise
        /\ idb' = o.db
        /\ last' = IF blocked
                   THEN Pending("getPronunciationHistory", [word |-> word],
                                calls, "skipped")
                   ELSE Done("getPronunciationHistory", [word |-> word], calls,
                             LocalResult(useLocal, localOk), results)
        /\ UNCHANGED <<user, now, cloud>>

----------------------------------------------------------------------------
(* Chat history: users/{uid}/chat_history, one document per message id.    *)
(* A message is {id, role, text, image, audio, groundingUrls}; id and text *)
(* are modelled.                                                           *)

MessageIds == 1..(ChatLimit + 1 + MaxChat)

(* The documents with timestamp k, in the order of their ids. *)
ChatAtTime(docs, k) ==
    LET ids == [i \in MessageIds |-> i]
        IsAt(i) == Has(docs, i) /\ docs[i].timestamp = k
    IN  SelectSeq(ids, IsAt)

(* orderBy('timestamp', 'asc'): the ids of the documents, oldest first.    *)
RECURSIVE Ascending(_, _)
Ascending(docs, k) ==
    IF k > MaxTime THEN <<>>
    ELSE ChatAtTime(docs, k) \o Ascending(docs, k + 1)

(* snapshot.docs.map(d => ({id, role, text, image, audio, groundingUrls})) *)
toChatMessage(data) == [id |-> data.id, text |-> data.text]

saveChatMessage(msg, t) ==
    LET attempt == user /\ ~cloudDisabled
        r == IF attempt THEN withTimeout(t) ELSE ResSkipped
        calls == IF attempt THEN <<Call("chat_history", r, cloudDisabled)>>
                 ELSE <<>>
    IN  /\ Started
        /\ cloud' = IF attempt /\ Lands(t)
                    THEN [cloud EXCEPT !.chat_history =
                              Put(@, msg.id, [id |-> msg.id, text |-> msg.text,
                                              timestamp |-> now])]
                    ELSE cloud
        /\ cloudDisabled' = IF attempt THEN AfterCall(r, cloudDisabled)
                            ELSE cloudDisabled
        /\ last' = Done("saveChatMessage", [msg |-> msg], calls, "skipped", Empty)
        /\ UNCHANGED <<user, now, dbPromise, idb>>

getChatHistory(t) ==
    LET attempt == user /\ ~cloudDisabled
        r == IF attempt THEN withTimeout(t) ELSE ResSkipped
        calls == IF attempt THEN <<Call("chat_history", r, cloudDisabled)>>
                 ELSE <<>>
        ids == Limit(Ascending(cloud.chat_history, 0), ChatLimit)
        docs == [i \in DOMAIN ids |-> toChatMessage(cloud.chat_history[ids[i]])]
    IN  /\ Started
        /\ cloudDisabled' = IF attempt THEN AfterCall(r, cloudDisabled)
                            ELSE cloudDisabled
        /\ last' = Done("getChatHistory", Empty, calls, "skipped",
                        IF attempt /\ r = ResOk THEN docs ELSE <<>>)
        /\ UNCHANGED <<user, now, dbPromise, idb, cloud>>

(* clearChatHistory: chatRef.get(), then one batch that deletes every      *)
(* document of the snapshot; neither call is wrapped in a timeout.         *)
clearChatHistory(t1, t2) ==
    LET attempt == user /\ ~cloudDisabled
        r1 == IF attempt THEN bareAwait(t1) ELSE ResSkipped
        r2 == IF r1 = ResOk THEN bareAwait(t2) ELSE ResSkipped
        blocked == ResPending \in {r1, r2}
        afterGet == IF attempt THEN AfterCall(r1, cloudDisabled) ELSE cloudDisabled
        calls == (IF attempt THEN <<Call("chat_history", r1, cloudDisabled)>>
                  ELSE <<>>)
                 \o (IF r1 = ResOk THEN <<Call("chat_history", r2, afterGet)>>
                     ELSE <<>>)
    IN  /\ Started
        /\ cloud' = IF r1 = ResOk /\ Lands(t2)
                    THEN [cloud EXCEPT !.chat_history = Empty]
                    ELSE cloud
        /\ cloudDisabled' = IF r1 = ResOk THEN AfterCall(r2, afterGet) ELSE afterGet
        /\ last' = IF blocked
                   THEN Pending("clearChatHistory", Empty, calls, "skipped")
                   ELSE Done("clearChatHistory", Empty, calls, "skipped", Empty)
        /\ UNCHANGED <<user, now, dbPromise, idb>>

----------------------------------------------------------------------------
(* Global audio cache *)

Texts == {"a", "b"}

Audios == 1..MaxAudio

NoAudio == 0

(* The positions of the documents of the shared collection that            *)
(* where("text", "==", text) matches.                                      *)
Matches(docs, text) == {i \in DOMAIN docs : docs[i].text = text}

(* An add in place of the put: an entry that exists is kept.               *)
addAudio(store, text, audio) ==
    IF Has(store, text) THEN store
    ELSE Put(store, text, [text |-> text, audio |-> audio, timestamp |-> now])

(* localDb.put('global_audio', { text, audio, timestamp: Date.now() })     *)
putAudio(store, text, audio) ==
    Put(store, text, [text |-> text, audio |-> audio, timestamp |-> now])

(* getCachedAudio(text) run on the local database (p, d), the shared       *)
(* collection docs and the breaker: what it returns and what it leaves.    *)
(* pick is the position of the document limit(1) delivers, 0 if none.      *)
cachedAudio(p, d, docs, disabled, text, t, lo, pick) ==
    LET o == initDB(p, d)
        readOk == o.promise = "open" /\ lo /= "fail"
        cached == readOk /\ Has(Local(o, "global_audio"), text)
        attempt == ~cached /\ ~disabled
        r == IF attempt THEN withTimeout(t) ELSE ResSkipped
        hit == attempt /\ r = ResOk /\ pick /= 0
        copied == hit /\ LocalOk(o, lo)
        data == docs[pick]
    IN  [ret |-> IF cached THEN Local(o, "global_audio")[text].audio
                 ELSE IF hit THEN data.audio
                 ELSE NoAudio,
         calls |-> IF attempt THEN <<Call("global_audio_cache", r, disabled)>>
                   ELSE <<>>,
         local |-> LocalResult(TRUE, readOk),
         disabled |-> IF attempt THEN AfterCall(r, disabled) ELSE disabled,
         promise |-> o.promise,
         db |-> IF copied
                THEN WriteLocal(o, "global_audio",
                         putAudio(Local(o, "global_audio"), text, data.audio))
                ELSE o.db]

getCachedAudio(text, t, lo, pick) ==
    \E c \in {cachedAudio(dbPromise, idb, cloud.global_audio_cache,
                          cloudDisabled, text, t, lo, pick)} :
        /\ Started
        /\ cloudDisabled' = c.disabled
        /\ dbPromise' = c.promise
        /\ idb' = c.db
        /\ last' = Done("getCachedAudio", [text |-> text], c.calls, c.local,
                        c.ret)
        /\ UNCHANGED <<user, now, cloud>>

(* saveCachedAudio(text, audioBase64) run on the local database (p, d),    *)
(* the shared collection docs and the breaker.                             *)
cacheAudio(p, d, docs, disabled, text, audioBase64, t1, t2, lo) ==
    LET o == initDB(p, d)
        localOk == LocalOk(o, lo)
        attempt == user /\ ~disabled
        r1 == IF attempt THEN bareAwait(t1) ELSE ResSkipped
        d1 == IF attempt THEN AfterCall(r1, disabled) ELSE disabled
        adds == attempt /\ r1 = ResOk /\ Matches(docs, text) = {}
        r2 == IF adds THEN bareAwait(t2) ELSE ResSkipped
        d2 == IF adds THEN AfterCall(r2, d1) ELSE d1
    IN  [returned |-> ResPending \notin {r1, r2},
         calls |-> IF ~attempt THEN <<>>
                   ELSE IF ~adds
                        THEN <<Call("global_audio_cache", r1, disabled)>>
                   ELSE <<Call("global_audio_cache", r1, disabled),
                          Call("global_audio_cache", r2, d1)>>,
         local |-> LocalResult(TRUE, localOk),
         disabled |-> d2,
         promise |-> o.promise,
         db |-> IF localOk
                THEN WriteLocal(o, "global_audio",
                         putAudio(Local(o, "global_audio"), text, audioBase64))
                ELSE o.db,
         docs |-> IF adds /\ Lands(t2)
                  THEN Append(docs, [text |-> text, audio |-> audioBase64,
                                     timestamp |-> now])
                  ELSE docs]

saveCachedAudio(text, audioBase64, t1, t2, lo) ==
    \E c \in {cacheAudio(dbPromise, idb, cloud.global_audio_cache,
                         cloudDisabled, text, audioBase64, t1, t2, lo)},
       args \in {[text |-> text, audio |-> audioBase64]} :
        /\ Begun
        /\ cloud' = [cloud EXCEPT !.global_audio_cache = c.docs]
        /\ cloudDisabled' = c.disabled
        /\ dbPromise' = c.promise
        /\ idb' = c.db
        /\ last' = IF c.returned
                   THEN Done("saveCachedAudio", args, c.calls, c.local, Empty)
                   ELSE Pending("saveCachedAudio", args, c.calls, c.local)
        /\ UNCHANGED <<user, now>>

(* base64ToUint8Array(base64).buffer and arrayBufferToBase64(buffer): the  *)
(* text form is the payload, the buffer the decoded bytes of it.           *)
base64ToUint8Array(base64) == [bytes |-> base64]

arrayBufferToBase64(buffer) == buffer.bytes

(* What playRawAudio may throw on: the RAM entry, the cached entry, the    *)
(* freshly generated audio.                                                *)
PlaybackFailures == {{}, {"ram"}, {"db"}, {"ram", "db", "fresh"}}

(* playAudioWithFallback(text, cacheKey) with cacheKey = text.  bad names  *)
(* the playbacks that throw, gen what generateSpeech delivers (NoAudio:    *)
(* it throws).  The save of fresh audio is started and not awaited.        *)
playAudioWithFallback(text, bad, t, lo, pick, gen) ==
    \E c \in {cachedAudio(dbPromise, idb, cloud.global_audio_cache,
                          cloudDisabled, text, t, lo, pick)} :
    LET inRam == Has(ui.audioCache, text)
        fromRam == inRam /\ "ram" \notin bad
        ram1 == IF inRam /\ ~fromRam
                THEN [k \in DOMAIN ui.audioCache \ {text} |-> ui.audioCache[k]]
                ELSE ui.audioCache
        found == ~fromRam /\ c.ret /= NoAudio
        ram2 == IF found THEN Put(ram1, text, base64ToUint8Array(c.ret))
                ELSE ram1
        fromCache == found /\ "db" \notin bad
        generates == ~fromRam /\ ~fromCache
        fresh == generates /\ gen /= NoAudio
        buffer == [bytes |-> gen]
        ram3 == IF fresh THEN Put(ram2, text, buffer) ELSE ram2
        source == IF fromRam THEN "ram"
                  ELSE IF fromCache THEN "cache"
                  ELSE IF fresh /\ "fresh" \notin bad THEN "generated"
                  ELSE "browser"
    IN  /\ Begun
        /\ cloudDisabled' = IF fromRam THEN cloudDisabled ELSE c.disabled
        /\ dbPromise' = IF fromRam THEN dbPromise ELSE c.promise
        /\ idb' = IF fromRam THEN idb ELSE c.db
        /\ ui' = [audioCache |-> ram3,
                  tasks |-> IF fresh
                            THEN Append(ui.tasks,
                                        [text |-> text,
                                         audio |-> arrayBufferToBase64(buffer)])
                            ELSE ui.tasks]
        /\ last' = Done("playAudioWithFallback", [text |-> text],
                        IF fromRam THEN <<>> ELSE c.calls,
                        IF fromRam THEN "skipped" ELSE c.local,
                        [source |-> source, generated |-> generates,
                         buffer |-> IF fromRam THEN ui.audioCache[text].bytes
                                    ELSE IF fromCache THEN c.ret
                                    ELSE IF source = "generated" THEN gen
                                    ELSE NoAudio])
        /\ UNCHANGED <<user, now, cloud>>

----------------------------------------------------------------------------
(* The time updates step by step.  updateStudyTime and updateSpeakingTime  *)
(* are async functions the callers do not await: each runs to its next     *)
(* await and gives way to whatever else is ready.  ui.tasks holds the      *)
(* calls in flight, each with the values its closure has captured.         *)

TimeField(op) == IF op = "updateStudyTime" THEN "minutes" ELSE "speakingMinutes"

(* What the transport can do with a call that has been issued. *)
IssuedInputs == {ResOk, ResHang} \cup RemoteErrors

(* The synchronous start of a call: getUser(), the date key, the test of   *)
(* the breaker, and the first await.                                       *)
startTimeUpdate(op, minutes) ==
    [op |-> op, minutes |-> minutes, key |-> dateKey(now),
     pc |-> IF user /\ ~cloudDisabled THEN "get" ELSE "open",
     current |-> Empty, existing |-> Empty,
     wroteRemote |-> FALSE, wroteLocal |-> FALSE]

(* { ...current, date: dateKey, <field>: (current?.<field> || 0) + minutes } *)
timeUpdateData(task) ==
    [f \in DOMAIN task.current \cup {"date", TimeField(task.op)} |->
        IF f = "date" THEN task.key
        ELSE IF f = TimeField(task.op)
             THEN OrZero(task.current, f) + task.minutes
        ELSE task.current[f]]

(* The record the local put writes. *)
timeUpdateRecord(task) ==
    LET currentMinutes == OrZero(task.existing, "minutes")
        currentSpeaking == OrZero(task.existing, "speakingMinutes")
    IN  IF task.op = "updateStudyTime"
        THEN [date |-> task.key,
              minutes |-> currentMinutes + task.minutes,
              speakingMinutes |-> currentSpeaking]
        ELSE [date |-> task.key,
              minutes |-> currentMinutes,
              speakingMinutes |-> currentSpeaking + task.minutes]

InFlight(task) == task.pc \notin {"done", "hung"}

(* setInterval callback: updateSpeakingTime(1); updateStudyTime(1);        *)
TimerFires ==
    /\ Begun
    /\ \A i \in DOMAIN ui.tasks : ~InFlight(ui.tasks[i])
    /\ ui' = [ui EXCEPT !.tasks = <<startTimeUpdate("updateSpeakingTime", 1),
                                    startTimeUpdate("updateStudyTime", 1)>>]
    /\ last' = Done("timer", [key |-> dateKey(now)], <<>>, "skipped",
                    [remote |-> IF Has(cloud.daily_stats, dateKey(now))
                                THEN cloud.daily_stats[dateKey(now)] ELSE Empty,
                     local |-> IF Has(idb.data, "daily_stats")
                                  /\ Has(idb.data["daily_stats"], dateKey(now))
                               THEN idb.data["daily_stats"][dateKey(now)]
                               ELSE Empty])
    /\ UNCHANGED <<user, cloudDisabled, now, dbPromise, idb, cloud>>

(* const snap = await ref.get(); const current = snap.exists ? ... : {}    *)
RemoteGetSettles ==
    \E i \in DOMAIN ui.tasks, t \in IssuedInputs :
        LET task == ui.tasks[i]
            r == bareAwait(t)
            current == IF Has(cloud.daily_stats, task.key)
                       THEN cloud.daily_stats[task.key] ELSE Empty
        IN  /\ task.pc = "get"
            /\ ui' = [ui EXCEPT !.tasks[i] =
                        IF r = ResOk THEN [task EXCEPT !.pc = "set",
                                                       !.current = current]
                        ELSE IF r = ResPending THEN [task EXCEPT !.pc = "hung"]
                        ELSE [task EXCEPT !.pc = "open"]]
            /\ cloudDisabled' = AfterCall(r, cloudDisabled)
            /\ UNCHANGED <<user, now, dbPromise, idb, cloud, last, prev, budget>>

(* await ref.set({ ...current, ... }, { merge: true })                     *)
RemoteSetSettles ==
    \E i \in DOMAIN ui.tasks, t \in IssuedInputs :
        LET task == ui.tasks[i]
            r == bareAwait(t)
        IN  /\ task.pc = "set"
            /\ cloud' = IF Lands(t)
                        THEN [cloud EXCEPT !.daily_stats =
                                  setMergeDoc(@, task.key, timeUpdateData(task))]
                        ELSE cloud
            /\ ui' = [ui EXCEPT !.tasks[i] =
                        IF r = ResOk THEN [task EXCEPT !.pc = "open",
                                                       !.wroteRemote = TRUE]
                        ELSE IF r = ResPending THEN [task EXCEPT !.pc = "hung"]
                        ELSE [task EXCEPT !.pc = "open"]]
            /\ cloudDisabled' = AfterCall(r, cloudDisabled)
            /\ UNCHANGED <<user, now, dbPromise, idb, last, prev, budget>>

(* const localDb = await initDB();                                         *)
LocalOpens ==
    \E i \in DOMAIN ui.tasks, lo \in LocalOutcomes :
        LET task == ui.tasks[i]
            o == initDB(dbPromise, idb)
        IN  /\ task.pc = "open"
            /\ dbPromise' = o.promise
            /\ idb' = o.db
            /\ ui' = [ui EXCEPT !.tasks[i] =
                        [task EXCEPT !.pc = IF LocalOk(o, lo) THEN "localGet"
                                            ELSE "done"]]
            /\ UNCHANGED <<user, cloudDisabled, now, cloud, last, prev, budget>>

(* const existing = await localDb.get('daily_stats', dateKey);             *)
LocalGetSettles ==
    \E i \in DOMAIN ui.tasks :
        LET task == ui.tasks[i]
            stats == idb.data["daily_stats"]
        IN  /\ task.pc = "localGet"
            /\ ui' = [ui EXCEPT !.tasks[i] =
                        [task EXCEPT !.pc = "localPut",
                                     !.existing = IF Has(stats, task.key)
                                                  THEN stats[task.key] ELSE Empty]]
            /\ UNCHANGED <<user, cloudDisabled, now, dbPromise, idb, cloud, last,
                           prev, budget>>

(* await localDb.put('daily_stats', { date, minutes, speakingMinutes });   *)
LocalPutSettles ==
    \E i \in DOMAIN ui.tasks :
        LET task == ui.tasks[i]
        IN  /\ task.pc = "localPut"
            /\ idb' = [idb EXCEPT !.data["daily_stats"] =
                          Put(@, task.key, timeUpdateRecord(task))]
            /\ ui' = [ui EXCEPT !.tasks[i] =
                        [task EXCEPT !.pc = "done", !.wroteLocal = TRUE]]
            /\ UNCHANGED <<user, cloudDisabled, now, dbPromise, cloud, last, prev,
                           budget>>

----------------------------------------------------------------------------
(* saveCachedAudio step by step.  playAudioWithFallback starts the save    *)
(* and does not await it, so the saves of two playbacks interleave at      *)
(* their awaits.                                                           *)

(* saveCachedAudio(text, base64) is called: it runs up to await initDB().  *)
AudioSaveStarts ==
    \E text \in Texts, audio \in Audios :
        /\ Begun
        /\ ui' = [ui EXCEPT !.tasks =
                    Append(@, [text |-> text, audio |-> audio, pc |-> "local"])]
        /\ last' = Done("saveCachedAudio", [text |-> text, audio |-> audio],
                        <<>>, "skipped", Empty)
        /\ UNCHANGED <<user, cloudDisabled, now, dbPromise, idb, cloud>>

(* The local put settles; then getUser() and the breaker are tested and    *)
(* the query is issued.                                                    *)
AudioLocalSettles ==
    \E i \in DOMAIN ui.tasks, lo \in LocalOutcomes :
        LET task == ui.tasks[i]
            o == initDB(dbPromise, idb)
        IN  /\ task.pc = "local"
            /\ dbPromise' = o.promise
            /\ idb' = IF LocalOk(o, lo)
                      THEN WriteLocal(o, "global_audio",
                               putAudio(Local(o, "global_audio"), task.text,
                                        task.audio))
                      ELSE o.db
            /\ ui' = [ui EXCEPT !.tasks[i] =
                        [task EXCEPT !.pc = IF user /\ ~cloudDisabled
                                            THEN "query" ELSE "done"]]
            /\ UNCHANGED <<user, cloudDisabled, now, cloud, last, prev, budget>>

(* const snapshot = await q.get(); if (snapshot.empty) ...                 *)
AudioQuerySettles ==
    \E i \in DOMAIN ui.tasks, t \in IssuedInputs :
        LET task == ui.tasks[i]
            r == bareAwait(t)
            empty == Matches(cloud.global_audio_cache, task.text) = {}
        IN  /\ task.pc = "query"
            /\ ui' = [ui EXCEPT !.tasks[i] =
                        [task EXCEPT !.pc = IF r = ResPending THEN "hung"
                                            ELSE IF r = ResOk /\ empty THEN "add"
                                            ELSE "done"]]
            /\ cloudDisabled' = AfterCall(r, cloudDisabled)
            /\ UNCHANGED <<user, now, dbPromise, idb, cloud, last, prev, budget>>

(* await audioRef.add({ text, audio, timestamp, contributor })             *)
AudioAddSettles ==
    \E i \in DOMAIN ui.tasks, t \in IssuedInputs :
        LET task == ui.tasks[i]
            r == bareAwait(t)
        IN  /\ task.pc = "add"
            /\ cloud' = IF Lands(t)
                        THEN [cloud EXCEPT !.global_audio_cache =
                                  Append(@, [text |-> task.text,
                                             audio |-> task.audio,
                                             timestamp |-> now])]
                        ELSE cloud
            /\ ui' = [ui EXCEPT !.tasks[i] =
                        [task EXCEPT !.pc = IF r = ResPending THEN "hung"
                                            ELSE "done"]]
            /\ cloudDisabled' = AfterCall(r, cloudDisabled)
            /\ UNCHANGED <<user, now, dbPromise, idb, last, prev, budget>>

----------------------------------------------------------------------------
(* retryOperation(operation): the wrapper of every call of the model API.  *)

(* What an invocation of the operation may throw: error.status (0 when the *)
(* error has none) and error.message, the set of the phrases it contains.  *)
(* The message of the TTS model that generated text names TTS.             *)
ApiErrors ==
    [status : {0, 400, 429, 503},
     message : {{}, {"503"}, {"Overloaded"}, {"Quota"}, {"INVALID_ARGUMENT"},
                {"Model tried to generate text", "TTS"}, {"TTS"}, {"safety"},
                {"blocked"}, {"Quota", "blocked"},
                {"Overloaded", "INVALID_ARGUMENT"}}]

(* An error that is retried whatever it says. *)
alwaysTransient(error) == TRUE

isTransient(error) ==
    \/ error.status = 503
    \/ "503" \in error.message
    \/ "Overloaded" \in error.message
    \/ error.status = 429
    \/ "Quota" \in error.message

(* retryOperation is called: the loop starts with i = 0 and invokes the    *)
(* operation.                                                              *)
RetryStarts ==
    /\ Begun
    /\ \A k \in DOMAIN ui.tasks : ui.tasks[k].pc \in {"returned", "thrown"}
    /\ ui' = [ui EXCEPT !.tasks = <<[pc |-> "call", i |-> 0, outcomes |-> <<>>,
                                     delays |-> <<>>, lastError |-> Undef,
                                     ret |-> Undef]>>]
    /\ last' = Done("retryOperation", Empty, <<>>, "skipped", Empty)
    /\ UNCHANGED <<user, cloudDisabled, now, dbPromise, idb, cloud>>

(* await operation() settles: the result is returned, or the catch block   *)
(* rethrows the error or starts the wait before the next attempt.          *)
OperationSettles ==
    \E k \in DOMAIN ui.tasks :
    \E outcome \in {[ok |-> TRUE, value |-> ui.tasks[k].i + 1]}
                   \cup {[ok |-> FALSE, error |-> e] : e \in ApiErrors} :
        LET task == ui.tasks[k]
            called == [task EXCEPT !.outcomes = Append(@, outcome)]
            msg == outcome.error.message
            nonRetriable ==
                \/ "Model tried to generate text" \in msg /\ "TTS" \in msg
                \/ "INVALID_ARGUMENT" \in msg
            safetyBlock == "safety" \in msg \/ "blocked" \in msg
        IN  /\ task.pc = "call"
            /\ ui' = [ui EXCEPT !.tasks[k] =
                        IF outcome.ok
                        THEN [called EXCEPT !.pc = "returned",
                                            !.ret = outcome.value]
                        ELSE IF nonRetriable \/ safetyBlock
                                \/ ~isTransient(outcome.error)
                        THEN [called EXCEPT !.pc = "thrown",
                                            !.lastError = outcome.error]
                        ELSE [called EXCEPT !.pc = "wait",
                                            !.lastError = outcome.error,
                                            !.delays = Append(@,
                                                INITIAL_DELAY * (2 ^ task.i))]]
            /\ UNCHANGED <<user, cloudDisabled, now, dbPromise, idb, cloud, last,
                           prev, budget>>

(* await wait(delay) is over: continue with i + 1, or leave the loop and   *)
(* throw lastError.                                                        *)
WaitElapses ==
    \E k \in DOMAIN ui.tasks :
        LET task == ui.tasks[k]
        IN  /\ task.pc = "wait"
            /\ ui' = [ui EXCEPT !.tasks[k] =
                        [task EXCEPT !.i = @ + 1,
                                     !.pc = IF task.i + 1 < MAX_RETRIES
                                            THEN "call" ELSE "thrown"]]
            /\ UNCHANGED <<user, cloudDisabled, now, dbPromise, idb, cloud, last,
                           prev, budget>>

----------------------------------------------------------------------------
(* The weekday histogram of the vocabulary *)

(* toLocaleDateString('en-US', {weekday: 'short'}) of the days of the      *)
(* week, from the day the clock counts from (1 January 1970).              *)
WeekdayNames == <<"Thu", "Fri", "Sat", "Sun", "Mon", "Tue", "Wed">>

weekdayOf(day) == WeekdayNames[(day % 7) + 1]

(* new Date(v.lastReviewed).toLocaleDateString(...): a record without the  *)
(* field gives new Date(undefined), the invalid date.                      *)
dayName(lastReviewed) ==
    IF lastReviewed = NoTime THEN "Invalid Date"
    ELSE weekdayOf(dateKey(lastReviewed))

(* Object.keys of an object the names were assigned to in this order: a    *)
(* name assigned again keeps its first place.                              *)
RECURSIVE objectKeys(_)
objectKeys(names) ==
    IF names = <<>> THEN <<>>
    ELSE LET front == objectKeys(SubSeq(names, 1, Len(names) - 1))
             name == names[Len(names)]
         IN  IF \E i \in 1..Len(front) : front[i] = name THEN front
             ELSE Append(front, name)

(* getVocabStats(): the call of the dashboard, without a level.            *)
getVocabStats(t, lo) ==
    LET last7Days == objectKeys([j \in 1..7 |-> weekdayOf(dateKey(now) - (7 - j))])
        attempt == user /\ ~cloudDisabled
        r == IF attempt THEN withTimeout(t) ELSE ResSkipped
        fetched == fetchedFromCloud(attempt, r)
        o == IF fetched THEN [promise |-> dbPromise, db |-> idb]
             ELSE initDB(dbPromise, idb)
        localOk == ~fetched /\ LocalOk(o, lo)
        allVocab == IF fetched THEN cloud.vocabulary
                    ELSE IF localOk THEN Local(o, "vocabulary")
                    ELSE Empty
        words(name) == Cardinality({k \in DOMAIN allVocab :
                                      dayName(allVocab[k].lastReviewed) = name})
    IN  /\ Started
        /\ cloudDisabled' = IF attempt THEN AfterCall(r, cloudDisabled)
                            ELSE cloudDisabled
        /\ dbPromise' = o.promise
        /\ idb' = o.db
        /\ last' = Done("getVocabStats", [level |-> Undef],
                        IF attempt
                        THEN <<Call("vocabulary", r, cloudDisabled)>> ELSE <<>>,
                        LocalResult(~fetched, localOk),
                        [i \in 1..Len(last7Days) |->
                            [name |-> last7Days[i], words |-> words(last7Days[i])]])
        /\ UNCHANGED <<user, now, cloud>>

----------------------------------------------------------------------------
(* The environment: the clock (Date.now()) advances.                       *)

Tick ==
    /\ now < MaxTime
    /\ now' = now + 1
    /\ UNCHANGED <<user, cloudDisabled, dbPromise, idb, cloud, last, prev, budget,
                   ui>>

----------------------------------------------------------------------------
(* Specifications *)

(* Records of earlier sessions; their timestamps are not in insertion      *)
(* order, as the device clock is not monotonic across sessions.            *)
SeedResults(n) ==
    [i \in 1..n |-> [score |-> 0, timestamp |-> i % 2]]

SeedLengths == {0, RecentLimit}

InitCommon ==
    /\ user \in BOOLEAN
    /\ cloudDisabled = FALSE
    /\ now = 1
    /\ dbPromise = "unset"
    /\ last = NoOp
    /\ prev = Summary(NoOp)
    /\ budget = MaxOps
    /\ ui = NoUI

InitResults ==
    /\ InitCommon
    /\ \E n \in SeedLengths :
          idb = [DatabaseAt(DBVersion) EXCEPT !.data["results"] = SeedResults(n)]
    /\ \E n \in SeedLengths :
          cloud = [EmptyCloud EXCEPT !.results = SeedResults(n)]

SaveResult ==
    \E score \in 0..MaxScore, t \in AllRemoteInputs, lo \in LocalOutcomes :
        saveResult(score, t, lo)

GetRecentResults ==
    \E t \in AllRemoteInputs, tieDesc \in BOOLEAN, lo \in LocalOutcomes :
        getRecentResults(t, tieDesc, lo)

NextResults ==
    \/ SaveResult
    \/ GetRecentResults
    \/ Tick

SpecResults == InitResults /\ [][NextResults]_vars

(* The cards of the surfaces that do not carry an image. *)
PlainCards == {c \in Cards : c.customImage = NoImage}

(* The record of the character as an earlier session may have left it.     *)
SeedVocab == [rating |-> "hard", bookmarked |-> "true", customImage |-> 1,
              lastReviewed |-> 0]

SeedVocabularies == {Empty, Put(Empty, Character, SeedVocab)}

(* A guest has no collections in the remote store. *)
InitVocab ==
    /\ InitCommon
    /\ \E v \in SeedVocabularies :
          idb = [DatabaseAt(DBVersion) EXCEPT !.data["vocabulary"] = v]
    /\ \E v \in SeedVocabularies :
          /\ cloud = [EmptyCloud EXCEPT !.vocabulary = v]
          /\ ~user => v = Empty

SaveVocabCustomImage ==
    \E card \in PlainCards, image \in Images, t \in RemoteInputs,
       lo \in LocalOutcomes :
        saveVocabCustomImage(card, image, t, lo)

SaveVocabProgress ==
    \E card \in Cards, rating \in Ratings, t \in RemoteInputs, lo \in LocalOutcomes :
        saveVocabProgress(card, rating, t, lo)

ToggleVocabBookmark ==
    \E card \in PlainCards, t \in RemoteInputs, lo \in WriteOutcomes :
        toggleVocabBookmark(card, t, lo)

NextVocab ==
    \/ SaveVocabCustomImage
    \/ SaveVocabProgress
    \/ ToggleVocabBookmark

SpecVocab == InitVocab /\ [][NextVocab]_vars

(* Goal objects an earlier session may have left: any subset of the        *)
(* fields, each at 1; the goals saved in a run are 2 or more.              *)
SeedGoals == {[f \in S |-> 1] : S \in SUBSET GoalFields}

SeedSettings == {Empty} \cup {Put(Empty, "goals", g) : g \in SeedGoals}

(* The database of an earlier release, with the records it could hold.     *)
SeedDatabase(v, goals) ==
    LET d == DatabaseAt(v)
        d1 == IF v >= StoreSince["vocabulary"]
              THEN [d EXCEPT !.data["vocabulary"] = Put(Empty, Character, SeedVocab)]
              ELSE d
    IN  IF v >= StoreSince["user_goals"]
        THEN [d1 EXCEPT !.data["user_goals"] = goals]
        ELSE d1

InitGoals ==
    /\ InitCommon
    /\ \E v \in 0..DBVersion, g \in SeedSettings :
          /\ idb = SeedDatabase(v, g)
          /\ v < StoreSince["user_goals"] => g = Empty
    /\ \E g \in SeedSettings :
          /\ cloud = [EmptyCloud EXCEPT !.settings = g]
          /\ ~user => g = Empty

(* The goal objects the settings form saves: every field is set.          *)
SavedGoals == {[f \in GoalFields |-> v] : v \in 2..(MaxGoal + 1)}

SaveUserGoals ==
    \E goals \in SavedGoals, t \in RemoteInputs, lo \in LocalOutcomes :
        saveUserGoals(goals, t, lo)

GetUserGoals ==
    \E t \in RemoteInputs, lo \in LocalOutcomes : getUserGoals(t, lo)

NextGoals ==
    \/ SaveUserGoals
    \/ GetUserGoals
    \/ InitDB
    \/ Reload

SpecGoals == InitGoals /\ [][NextGoals]_vars

(* The statistics of day 0 as an earlier session may have left them: the  *)
(* record of a release that did not count speaking minutes yet.            *)
SeedStat == [date |-> 0, minutes |-> 1]

SeedStats == {Empty, Put(Empty, 0, SeedStat)}

InitStats ==
    /\ InitCommon
    /\ \E v \in SeedVocabularies, st \in SeedStats :
          idb = [DatabaseAt(DBVersion) EXCEPT !.data["vocabulary"] = v,
                                              !.data["daily_stats"] = st]
    /\ \E v \in SeedVocabularies, st \in SeedStats :
          /\ cloud = [EmptyCloud EXCEPT !.vocabulary = v, !.daily_stats = st]
          /\ ~user => v = Empty /\ st = Empty

SavePronunciationAttempt ==
    \E score \in 0..MaxScore, t \in BareInputs, lo \in LocalOutcomes :
        savePronunciationAttempt([word |-> Word, timestamp |-> now,
                                  score |-> score], t, lo)

UpdateStudyTime ==
    \E minutes \in 1..MaxMinutes, t1 \in BareInputs, t2 \in BareInputs,
       lo \in LocalOutcomes :
        updateStudyTime(minutes, t1, t2, lo)

UpdateSpeakingTime ==
    \E minutes \in 1..MaxMinutes, t1 \in BareInputs, t2 \in BareInputs,
       lo \in LocalOutcomes :
        updateSpeakingTime(minutes, t1, t2, lo)

GetDailyProgress ==
    \E t1 \in BareInputs, t2 \in BareInputs, t3 \in BareInputs,
       lo \in LocalOutcomes :
        getDailyProgress(t1, t2, t3, lo)

NextStats ==
    \/ SavePronunciationAttempt
    \/ UpdateStudyTime
    \/ UpdateSpeakingTime
    \/ GetDailyProgress
    \/ Tick

SpecStats == InitStats /\ [][NextStats]_vars

(* Entries an earlier session, or another user, may have left; their      *)
(* payloads are none of those of the run.                                  *)
SeedAudio(text, audio) == [text |-> text, audio |-> audio, timestamp |-> 0]

SeedLocalAudio == {Empty, Put(Empty, "a", SeedAudio("a", MaxAudio + 1))}

SeedSharedAudio == {<<>>, <<SeedAudio("a", MaxAudio + 2)>>}

InitAudio ==
    /\ InitCommon
    /\ \E a \in SeedLocalAudio :
          idb = [DatabaseAt(DBVersion) EXCEPT !.data["global_audio"] = a]
    /\ \E a \in SeedSharedAudio :
          cloud = [EmptyCloud EXCEPT !.global_audio_cache = a]

(* The shared collection is read by guests too. *)
SharedInputs == IF cloudDisabled THEN {ResSkipped} ELSE Transport

Picks(text) ==
    IF Matches(cloud.global_audio_cache, text) = {} THEN {0}
    ELSE Matches(cloud.global_audio_cache, text)

GetCachedAudio ==
    \E text \in Texts, t \in SharedInputs, lo \in WriteOutcomes :
        \E pick \in Picks(text) : getCachedAudio(text, t, lo, pick)

(* The transport has a say in a second call only when the first resolved. *)
SecondInputs(t1) == IF t1 = ResOk THEN BareInputs ELSE {ResSkipped}

SaveCachedAudio ==
    \E text \in Texts, audio \in Audios, t1 \in BareInputs, lo \in LocalOutcomes :
        \E t2 \in SecondInputs(t1) :
            /\ saveCachedAudio(text, audio, t1, t2, lo)
            /\ UNCHANGED ui

(* The save that playAudioWithFallback started runs. *)
BackgroundSave ==
    /\ ui.tasks /= <<>>
    /\ \E t1 \in BareInputs, lo \in LocalOutcomes :
          \E t2 \in SecondInputs(t1) :
              saveCachedAudio(Head(ui.tasks).text, Head(ui.tasks).audio,
                              t1, t2, lo)
    /\ ui' = [ui EXCEPT !.tasks = Tail(@)]

PlayAudioWithFallback ==
    \E text \in Texts, bad \in PlaybackFailures, t \in SharedInputs,
       lo \in WriteOutcomes, gen \in {NoAudio} \cup Audios :
        \E pick \in Picks(text) :
            playAudioWithFallback(text, bad, t, lo, pick, gen)

NextAudio ==
    \/ GetCachedAudio
    \/ SaveCachedAudio
    \/ BackgroundSave
    \/ PlayAudioWithFallback

SpecAudio == InitAudio /\ [][NextAudio]_vars

NextTimers ==
    \/ TimerFires
    \/ RemoteGetSettles
    \/ RemoteSetSettles
    \/ LocalOpens
    \/ LocalGetSettles
    \/ LocalPutSettles
    \/ Tick

SpecTimers == InitStats /\ [][NextTimers]_vars

(* Messages of earlier sessions, n of them. *)
SeedChat(n) ==
    [i \in 1..n |-> [id |-> i, text |-> "old", timestamp |-> i % 2]]

SeedChatLengths == {0, 2, ChatLimit + 1}

(* The messages a run saves: new ones, and one that is saved again. *)
Messages ==
    {[id |-> i, text |-> "new"] : i \in {1} \cup ((ChatLimit + 2)..(ChatLimit + 1 + MaxChat))}

InitChat ==
    /\ InitCommon
    /\ idb = DatabaseAt(DBVersion)
    /\ \E n \in SeedChatLengths :
          /\ cloud = [EmptyCloud EXCEPT !.chat_history = SeedChat(n)]
          /\ ~user => n = 0

SaveChatMessage ==
    \E msg \in Messages, t \in RemoteInputs : saveChatMessage(msg, t)

GetChatHistory == \E t \in RemoteInputs : getChatHistory(t)

NextChat ==
    \/ SaveChatMessage
    \/ GetChatHistory
    \/ Tick

SpecChat == InitChat /\ [][NextChat]_vars

(* The attempts of earlier sessions: n of Word, and one of OtherWord.      *)
SeedAttempts(n) ==
    LET old(word, i) == [word |-> word, timestamp |-> 0 - i, score |-> 0,
                         id |-> attemptId(word, 0 - i)]
        times == IF n = 0 THEN {} ELSE 1..n
    IN  [key \in {attemptId(Word, 0 - i) : i \in times}
                 \cup (IF n = 0 THEN {} ELSE {attemptId(OtherWord, 0 - 1)}) |->
            IF \E i \in times : key = attemptId(Word, 0 - i)
            THEN old(Word, CHOOSE i \in times : key = attemptId(Word, 0 - i))
            ELSE old(OtherWord, 1)]

InitPron ==
    /\ InitCommon
    /\ \E n \in {0, PronLimit + 1} :
          idb = [DatabaseAt(DBVersion) EXCEPT
                    !.data["pronunciation_history"] = SeedAttempts(n)]
    /\ \E n \in {0, PronLimit + 1} :
          /\ cloud = [EmptyCloud EXCEPT
                         !.pronunciation_history = SeedAttempts(n)]
          /\ ~user => n = 0

SaveAttempt ==
    \E word \in {Word, OtherWord}, t \in BareInputs, lo \in LocalOutcomes :
        savePronunciationAttempt([word |-> word, timestamp |-> now,
                                  score |-> MaxScore], t, lo)

GetPronunciationHistory ==
    \E word \in {Word, OtherWord}, t \in BareInputs, lo \in LocalOutcomes :
        getPronunciationHistory(word, t, lo)

NextPron ==
    \/ SaveAttempt
    \/ GetPronunciationHistory
    \/ Tick

SpecPron == InitPron /\ [][NextPron]_vars

(* Records of other characters as earlier sessions left them: one reviewed *)
(* more than a week ago, one reviewed on day 0.                            *)
LongAgo == 0 - (8 * DayLength)

SeedReviewed ==
    [k \in {"d", "e"} |->
        [rating |-> "good", bookmarked |-> "false", customImage |-> NoImage,
         lastReviewed |-> IF k = "d" THEN LongAgo ELSE 0]]

InitHistogram ==
    /\ InitCommon
    /\ \E v \in {Empty, SeedReviewed} :
          idb = [DatabaseAt(DBVersion) EXCEPT !.data["vocabulary"] = v]
    /\ \E v \in {Empty, SeedReviewed} :
          /\ cloud = [EmptyCloud EXCEPT !.vocabulary = v]
          /\ ~user => v = Empty

GetVocabStats ==
    \E t \in RemoteInputs, lo \in LocalOutcomes : getVocabStats(t, lo)

NextHistogram ==
    \/ SaveVocabCustomImage
    \/ SaveVocabProgress
    \/ GetVocabStats
    \/ Tick

SpecHistogram == InitHistogram /\ [][NextHistogram]_vars

(* Every collection as an earlier session may have left it. *)
SeedRecords(c) ==
    [c EXCEPT !.results = SeedResults(2),
              !.vocabulary = Put(Empty, Character, SeedVocab),
              !.pronunciation_history = SeedAttempts(1)]

InitRecords ==
    /\ InitCommon
    /\ \E seeded \in BOOLEAN :
          idb = [DatabaseAt(DBVersion) EXCEPT
                    !.data = IF seeded THEN SeedRecords(@) ELSE @]
    /\ \E seeded \in BOOLEAN :
          /\ cloud = IF seeded
                     THEN [SeedRecords(EmptyCloud) EXCEPT !.chat_history = SeedChat(2)]
                     ELSE EmptyCloud
          /\ ~user => ~seeded

ClearChatHistory ==
    \E t1 \in BareInputs : \E t2 \in SecondInputs(t1) : clearChatHistory(t1, t2)

NextRecords ==
    \/ SaveResult
    \/ SaveVocabCustomImage
    \/ SaveVocabProgress
    \/ ToggleVocabBookmark
    \/ SaveAttempt
    \/ ClearChatHistory
    \/ Tick

SpecRecords == InitRecords /\ [][NextRecords]_vars

NextAudioSaves ==
    \/ AudioSaveStarts
    \/ AudioLocalSettles
    \/ AudioQuerySettles
    \/ AudioAddSettles
    \/ Tick

SpecAudioSaves == InitAudio /\ [][NextAudioSaves]_vars

InitRetry ==
    /\ InitCommon
    /\ idb = DatabaseAt(DBVersion)
    /\ cloud = EmptyCloud

NextRetry ==
    \/ RetryStarts
    \/ OperationSettles
    \/ WaitElapses

SpecRetry == InitRetry /\ [][NextRetry]_vars

----------------------------------------------------------------------------
(* Properties of the results family *)

(* A step that is an operation. *)
OpStep == budget' < budget

Range(q) == {q[i] : i \in DOMAIN q}

Count(q, x) == Cardinality({i \in DOMAIN q : q[i] = x})

Min(a, b) == IF a < b THEN a ELSE b

RemoteFailed(l) == l.calls /= <<>> /\ IsError(l.calls[1].result)

RemoteSucceeded(l) == l.calls /= <<>> /\ l.calls[1].result = ResOk

(* The collection a getRecentResults that ran last has read. *)
ResultsRead ==
    IF last.local = "skipped" THEN cloud.results
    ELSE IF last.local = "ok" THEN idb.data["results"]
    ELSE <<>>

NonIncreasing(q) ==
    \A i, j \in DOMAIN q : i < j => q[i].timestamp >= q[j].timestamp

(* q holds the n newest records of src: it has n records of src, and       *)
(* every record of src newer than the oldest of q is in q.                 *)
NewestOf(q, src, n) ==
    /\ Len(q) = Min(n, Len(src))
    /\ \A x \in Range(q) : Count(q, x) <= Count(src, x)
    /\ \A x \in Range(src) :
          (q /= <<>> /\ x.timestamp > q[Len(q)].timestamp)
              => Count(q, x) = Count(src, x)

(* C7: getRecentResults returns at most 20 records, in non-increasing      *)
(* timestamp order, and they are the 20 (or fewer) most recent records of  *)
(* the store that was read, on the remote and on the local path.           *)
C7_BoundedRecency ==
    last.op = "getRecentResults" =>
        /\ Len(last.ret) <= RecentLimit
        /\ NonIncreasing(last.ret)
        /\ NewestOf(last.ret, ResultsRead, RecentLimit)

(* A read of a store that holds more than 20 records with different        *)
(* timestamps, on the local path.                                          *)
C7_Witness ==
    /\ last.op = "getRecentResults"
    /\ last.local = "ok"
    /\ Len(idb.data["results"]) > RecentLimit
    /\ Len(last.ret) = RecentLimit
    /\ last.ret[1].timestamp > last.ret[RecentLimit].timestamp

(* C6 (Scenario B): when the remote write of saveResult times out, the     *)
(* record is written to the local results store, and a getRecentResults    *)
(* that follows while the remote store is still unavailable returns it.    *)
C6_ScenarioB ==
    /\ (last.op = "saveResult" /\ last.calls /= <<>>
        /\ last.calls[1].result = ErrTimeout)
          => /\ last.local /= "skipped"
             /\ last.local = "ok" => last.args \in Range(idb.data["results"])
    /\ (/\ prev.op = "saveResult"
        /\ prev.remote = ErrTimeout.code
        /\ prev.local = "ok"
        /\ last.op = "getRecentResults"
        /\ RemoteFailed(last)
        /\ last.local = "ok")
          => prev.args \in Range(last.ret)

(* The scenario on a local store that already held 20 records.             *)
C6_Witness ==
    /\ prev.op = "saveResult"
    /\ prev.remote = ErrTimeout.code
    /\ prev.local = "ok"
    /\ last.op = "getRecentResults"
    /\ RemoteFailed(last)
    /\ last.local = "ok"
    /\ Len(idb.data["results"]) > RecentLimit
    /\ prev.args.score = MaxScore
    /\ prev.args \in Range(last.ret)

Results(l) == {l.calls[i].result : i \in DOMAIN l.calls}

TransientFailure(l) ==
    /\ Results(l) \cap TransientErrors /= {}
    /\ Results(l) \cap PermissionErrors = {}

C4_FallsBack == TransientFailure(last) => last.local /= "skipped"

C4_Step ==
    /\ (~cloudDisabled /\ cloudDisabled')
          => Results(last') \cap PermissionErrors /= {}
    /\ (OpStep /\ TransientFailure(last')) => cloudDisabled' = cloudDisabled
    /\ (OpStep /\ TransientFailure(last) /\ ~cloudDisabled /\ user)
          => last'.calls /= <<>>

(* C4: only a permission-denied-class error opens the breaker; a timeout   *)
(* or network error never sets cloudDisabled, the call that failed falls   *)
(* back to the local store, and the next operation of an authenticated     *)
(* user calls the remote store again.                                      *)
C4_BreakerOnlyOnPermission == []C4_FallsBack /\ [][C4_Step]_vars

(* After a timed-out or offline write, the next operation reaches the      *)
(* remote store.                                                           *)
C4_Witness ==
    /\ prev.op = "saveResult"
    /\ prev.remote \in {ErrTimeout.code, ErrUnavailable.code}
    /\ prev.local = "ok"
    /\ ~cloudDisabled
    /\ RemoteSucceeded(last)

----------------------------------------------------------------------------
(* Properties of the vocabulary family *)

VocabFields == {"rating", "bookmarked", "customImage"}

Target(op) == CASE op = "saveVocabProgress" -> "rating"
                [] op = "toggleVocabBookmark" -> "bookmarked"
                [] op = "saveVocabCustomImage" -> "customImage"
                [] OTHER -> "none"

IsSet(f, v) == IF f = "customImage" THEN v /= NoImage ELSE v /= Undef

(* The write from old to new kept every field that was set, except f. *)
KeptExcept(old, new, f) ==
    Has(old, Character) =>
        /\ Has(new, Character)
        /\ \A g \in VocabFields \ {f} :
              IsSet(g, old[Character][g])
                  => new[Character][g] = old[Character][g]

(* C1: no saveVocabProgress, toggleVocabBookmark or saveVocabCustomImage   *)
(* clears or resets a stored field it did not target, in the remote and in *)
(* the local record, whatever card copy the caller supplies.               *)
C1_MergeNotClobber ==
    [][OpStep =>
         /\ KeptExcept(cloud.vocabulary, cloud'.vocabulary, Target(last'.op))
         /\ KeptExcept(idb.data["vocabulary"], idb'.data["vocabulary"],
                       Target(last'.op))]_vars

Authoritative(vocabulary, card) ==
    IF Has(vocabulary, Character)
    THEN Truthy(vocabulary[Character].bookmarked)
    ELSE Truthy(card.bookmarked)

(* C10: toggleVocabBookmark stores and returns the inverse of the          *)
(* authoritative stored value, on the remote-write path as on the local    *)
(* one, so that a second toggle from a stale copy undoes the first.        *)
C10_TogglesAuthoritative ==
    [][(/\ OpStep
        /\ last'.op = "toggleVocabBookmark"
        /\ RemoteSucceeded(last') \/ last'.local = "ok")
          => LET expected == Not(Authoritative(idb.data["vocabulary"],
                                               last'.args.card))
             IN  /\ last'.ret = expected
                 /\ RemoteSucceeded(last')
                      => cloud'.vocabulary[Character].bookmarked = expected
                 /\ last'.local = "ok"
                      => idb'.data["vocabulary"][Character].bookmarked
                           = expected]_vars

----------------------------------------------------------------------------
(* Properties of the goals and of the local database *)

(* The goals object a getUserGoals that ran last has read; Empty if none.  *)
GoalsRead ==
    IF RemoteSucceeded(last) /\ Has(cloud.settings, "goals")
    THEN cloud.settings["goals"]
    ELSE IF last.local = "ok" /\ Has(idb.data["user_goals"], "goals")
         THEN idb.data["user_goals"]["goals"]
    ELSE Empty

(* C8: getUserGoals returns exactly {10, 15, 5, 10} when no goals are      *)
(* saved in the store it reads or when every read fails, and each saved    *)
(* field with its saved value, each missing field with its default,        *)
(* when a partial object is saved.                                         *)
C8_GoalDefaults ==
    (last.op = "getUserGoals" /\ last.returned) =>
        /\ GoalsRead = Empty
             => last.ret = [dailyWords |-> 10, dailyMinutes |-> 15,
                            dailySpeakingMinutes |-> 5,
                            dailyPronunciation |-> 10]
        /\ DOMAIN last.ret = GoalFields
        /\ \A f \in GoalFields :
              last.ret[f] = IF f \in DOMAIN GoalsRead THEN GoalsRead[f]
                            ELSE CASE f = "dailyWords" -> 10
                                   [] f = "dailyMinutes" -> 15
                                   [] f = "dailySpeakingMinutes" -> 5
                                   [] f = "dailyPronunciation" -> 10

(* A read of a partial object: only dailyWords is saved. *)
C8_Witness ==
    /\ last.op = "getUserGoals"
    /\ last.returned
    /\ DOMAIN GoalsRead = {"dailyWords"}
    /\ last.ret = [dailyWords |-> 1, dailyMinutes |-> 15,
                   dailySpeakingMinutes |-> 5, dailyPronunciation |-> 10]

C9_Opened ==
    /\ dbPromise /= "rejected"
    /\ dbPromise = "open" =>
          /\ idb.version = 4
          /\ idb.schema = [results |-> {"by-date"}, vocabulary |-> {},
                           pronunciation_history |-> {"by-word", "by-timestamp"},
                           daily_stats |-> {}, user_goals |-> {},
                           global_audio |-> {}]
          /\ DOMAIN idb.data = DOMAIN idb.schema

C9_Step ==
    /\ \A n \in DOMAIN idb.schema :
          /\ n \in DOMAIN idb'.schema
          /\ idb'.schema[n] = idb.schema[n]
    /\ \A n \in DOMAIN idb.data :
          /\ n \in DOMAIN idb'.data
          /\ DOMAIN idb.data[n] \subseteq DOMAIN idb'.data[n]
    /\ (OpStep /\ last'.op = "initDB") =>
          /\ \A n \in DOMAIN idb.data : idb'.data[n] = idb.data[n]
          /\ idb.version = DBVersion => idb' = idb
    /\ (dbPromise = "open" /\ last'.op /= "reload") => dbPromise' = "open"

(* C9: opening the local store from any schema version 0..4 leaves exactly *)
(* the six collections with their indexes; no collection is created twice, *)
(* no collection or record is removed, opening a second time changes       *)
(* nothing, and repeated initDB calls reuse the open handle.               *)
C9_IdempotentMigration == []C9_Opened /\ [][C9_Step]_vars

(* The database of the first release, with a record in it, is migrated by  *)
(* one initDB, and initDB is called again.                                 *)
C9_Witness ==
    /\ prev.op = "initDB"
    /\ prev.args.oldVersion = 1
    /\ last.op = "initDB"
    /\ last.args.oldVersion = DBVersion
    /\ dbPromise = "open"
    /\ Has(idb.data["vocabulary"], Character)
    /\ idb.data["user_goals"] = Empty

----------------------------------------------------------------------------
(* Properties of the circuit breaker and of completion *)

(* No remote call of the last operation was issued with the breaker open.  *)
C3_NoCallWhileOpen ==
    \A i \in DOMAIN last.calls : ~last.calls[i].open

(* C3: once cloudDisabled is set it is never reset, and no remote call of  *)
(* any entity family is issued afterwards, the remaining remote steps of   *)
(* the operation in which the permission error occurred included.          *)
C3_BreakerMonotonic ==
    /\ []C3_NoCallWhileOpen
    /\ [][cloudDisabled => cloudDisabled']_vars

(* C5: every exported persistence operation returns to its caller, also    *)
(* when a remote call it issues never resolves: the call is timed out and  *)
(* the local path is used.                                                 *)
C5_TimeoutBoundedCompletion ==
    /\ last.returned
    /\ \A i \in DOMAIN last.calls :
          last.calls[i].result = ErrTimeout => last.local /= "skipped"

----------------------------------------------------------------------------
(* Properties of guest sessions and of the audio cache *)

(* C11: with no authenticated user, no operation of the persistence layer  *)
(* issues a call to the remote store, the audio cache lookup of            *)
(* getCachedAudio included.                                                *)
C11_GuestNeverRemote == ~user => last.calls = <<>>

C18_Step ==
    /\ (OpStep /\ last'.op = "saveCachedAudio" /\ last'.local = "ok")
          => /\ Has(idb'.data["global_audio"], last'.args.text)
             /\ idb'.data["global_audio"][last'.args.text].audio
                  = last'.args.audio
    /\ (OpStep /\ last'.op = "saveCachedAudio"
        /\ \A i \in DOMAIN last'.calls : last'.calls[i].result /= ResPending)
          => last'.returned
    /\ (/\ OpStep
        /\ last.op = "saveCachedAudio"
        /\ last.local = "ok"
        /\ last'.op = "getCachedAudio"
        /\ last'.args.text = last.args.text
        /\ last'.local = "ok")
          => /\ last'.ret = last.args.audio
             /\ last'.calls = <<>>

(* C18: saveCachedAudio(text, audio) writes the entry to the local audio   *)
(* cache whatever the user, the breaker and the outcome of the remote      *)
(* write are, a rejected remote write does not keep it from returning, and *)
(* a getCachedAudio(text) that follows returns exactly that audio.         *)
C18_AudioSavedLocally == [][C18_Step]_vars

(* An entry of an earlier session is replaced while the remote store       *)
(* denies the write, and the lookup that follows returns the new audio.    *)
C18_Witness ==
    /\ user
    /\ prev.op = "saveCachedAudio"
    /\ prev.remote = ErrPermission.code
    /\ prev.local = "ok"
    /\ last.op = "getCachedAudio"
    /\ last.args.text = "a"
    /\ last.ret \in Audios
    /\ last.calls = <<>>

(* C19: playAudioWithFallback consults the RAM cache, then the local       *)
(* cache, then the shared collection; the shared collection is queried     *)
(* only after a local miss, a remote hit is copied into the local cache    *)
(* and the RAM cache, and the generator is not invoked when a tier holds   *)
(* an entry for the text.                                                  *)
C19_AudioLookupOrder ==
    [][(OpStep /\ last'.op = "playAudioWithFallback") =>
         LET text == last'.args.text
             inRam == Has(ui.audioCache, text)
             inLocal == Has(idb.data["global_audio"], text)
             inShared == Matches(cloud.global_audio_cache, text) /= {}
         IN  /\ last'.ret.generated => ~inRam /\ ~inLocal /\ ~inShared
             /\ last'.calls /= <<>> => ~inLocal \/ last'.local = "fail"
             /\ (last'.calls /= <<>> /\ last'.calls[1].result = ResOk
                 /\ inShared /\ last'.local = "ok")
                   => Has(ui'.audioCache, text)]_vars

----------------------------------------------------------------------------
(* Properties of the daily statistics *)

BothDone(w) ==
    /\ Len(ui.tasks) = 2
    /\ \A i \in 1..2 : ui.tasks[i].pc = "done" /\ ui.tasks[i][w]

(* C12: when the timer's updateStudyTime(a) and updateSpeakingTime(b) of   *)
(* one date have both written a store, that store holds the minutes it     *)
(* held before plus a and the speaking minutes it held before plus b.      *)
C12_NoLostIncrement ==
    /\ (last.op = "timer" /\ BothDone("wroteLocal"))
          => LET stat == idb.data["daily_stats"][last.args.key]
             IN  /\ stat.minutes = OrZero(last.ret.local, "minutes") + 1
                 /\ stat.speakingMinutes
                      = OrZero(last.ret.local, "speakingMinutes") + 1
    /\ (last.op = "timer" /\ BothDone("wroteRemote"))
          => LET stat == cloud.daily_stats[last.args.key]
             IN  /\ OrZero(stat, "minutes")
                      = OrZero(last.ret.remote, "minutes") + 1
                 /\ OrZero(stat, "speakingMinutes")
                      = OrZero(last.ret.remote, "speakingMinutes") + 1

(* The DailyStat of day d in a local database, Empty when there is none. *)
StatAt(d, day) ==
    IF Has(d.data, "daily_stats") /\ Has(d.data["daily_stats"], day)
    THEN d.data["daily_stats"][day] ELSE Empty

RemoteStatAt(day) ==
    IF Has(cloud.daily_stats, day) THEN cloud.daily_stats[day] ELSE Empty

Today == now \div DayLength

C13_Step ==
    /\ (OpStep /\ last'.op \in {"updateStudyTime", "updateSpeakingTime"})
          => \A day \in 0..MaxTime :
                day /= Today
                  => /\ StatAt(idb', day) = StatAt(idb, day)
                     /\ RemoteStatAt(day)' = RemoteStatAt(day)
    /\ (OpStep /\ last'.op = "getDailyProgress" /\ last'.returned)
          => /\ last'.ret.minutesSpent
                  \in {0, OrZero(StatAt(idb, Today), "minutes"),
                       OrZero(RemoteStatAt(Today), "minutes")}
             /\ last'.ret.speakingMinutes
                  \in {0, OrZero(StatAt(idb, Today), "speakingMinutes"),
                       OrZero(RemoteStatAt(Today), "speakingMinutes")}

C14_ReadFallback ==
    [][(/\ OpStep
        /\ last'.op = "getDailyProgress"
        /\ last'.returned
        /\ user
        /\ RemoteFailed(last')
        /\ last'.calls[1].family = "daily_stats"
        /\ last'.local = "ok")
          => /\ last'.ret.minutesSpent
                  = OrZero(StatAt(idb', Today), "minutes")
             /\ last'.ret.speakingMinutes
                  = OrZero(StatAt(idb', Today), "speakingMinutes")]_vars

----------------------------------------------------------------------------
(* Properties of the read and write protocols *)

(* C15: a getUserGoals whose remote read succeeded returns what the remote *)
(* store holds without consulting the local store, also when the remote    *)
(* store holds no goals: then it returns the defaults.                     *)
C15_RemoteReadAsIs ==
    (last.op = "getUserGoals" /\ last.returned /\ RemoteSucceeded(last)) =>
        /\ last.local = "skipped"
        /\ ~Has(cloud.settings, "goals") => last.ret = defaultGoals

(* C16: after a saveVocabProgress, toggleVocabBookmark or                  *)
(* saveVocabCustomImage of a signed-in user whose remote write succeeded,  *)
(* the local store holds the record too, with the value written, unless   *)
(* the local store itself failed.                                          *)
C16_VocabMirroredLocally ==
    [][(/\ OpStep
        /\ last'.op \in {"saveVocabProgress", "toggleVocabBookmark",
                         "saveVocabCustomImage"}
        /\ user
        /\ RemoteSucceeded(last')
        /\ last'.local /= "fail")
          => /\ Has(idb'.data["vocabulary"], Character)
             /\ idb'.data["vocabulary"][Character][Target(last'.op)]
                  = cloud'.vocabulary[Character][Target(last'.op)]]_vars

(* The contents of a store of a local database, Empty when it has none. *)
StoreOf(d, name) == IF Has(d.data, name) THEN d.data[name] ELSE Empty

(* C17: a saveUserGoals whose remote write succeeded leaves the local      *)
(* user_goals collection as it was.                                        *)
C17_GoalsLocalOnlyOnFailure ==
    [][(/\ OpStep
        /\ last'.op = "saveUserGoals"
        /\ RemoteSucceeded(last'))
          => StoreOf(idb', "user_goals") = StoreOf(idb, "user_goals")]_vars

----------------------------------------------------------------------------
(* Properties of the chat history *)

C20_Step ==
    /\ (OpStep /\ last'.op = "getChatHistory") =>
          LET q == last'.ret
              stored == cloud.chat_history
              returned == {q[i].id : i \in DOMAIN q}
          IN  /\ Len(q) <= 50
              /\ \A i \in DOMAIN q :
                    Has(stored, q[i].id) /\ q[i].text = stored[q[i].id].text
              /\ \A i, j \in DOMAIN q :
                    i < j => /\ q[i].id /= q[j].id
                             /\ stored[q[i].id].timestamp
                                  <= stored[q[j].id].timestamp
              /\ \A m \in DOMAIN stored \ returned, x \in returned :
                    stored[m].timestamp <= stored[x].timestamp
              /\ (~user \/ cloudDisabled) => q = <<>> /\ last'.calls = <<>>
    /\ (OpStep /\ last'.op = "saveChatMessage" /\ (~user \/ cloudDisabled))
          => cloud' = cloud /\ idb' = idb /\ last'.calls = <<>>

(* C20: getChatHistory returns at most 50 stored messages in ascending     *)
(* order of their timestamps, none of them older than a stored message it  *)
(* leaves out; for a guest or with the breaker open it returns no message  *)
(* and saveChatMessage stores nothing.                                     *)
C20_ChatBoundedRecent == [][C20_Step]_vars

----------------------------------------------------------------------------
(* Properties of the pronunciation history *)

(* The collection a getPronunciationHistory l has returned attempts from.  *)
AttemptsRead(l) ==
    IF l.local = "skipped" THEN cloud.pronunciation_history
    ELSE IF l.local = "ok" THEN idb.data["pronunciation_history"]
    ELSE <<>>

KeepsOtherAttempts(old, new, attempt) ==
    \A k \in DOMAIN old :
        (old[k].word /= attempt.word \/ old[k].timestamp /= attempt.timestamp)
            => k \in DOMAIN new /\ new[k] = old[k]

C21_Step ==
    /\ (OpStep /\ last'.op = "getPronunciationHistory" /\ last'.returned) =>
          LET q == last'.ret
              word == last'.args.word
              src == AttemptsRead(last')
              mine == {k \in DOMAIN src : src[k].word = word}
          IN  /\ Len(q) = Min(10, Cardinality(mine))
              /\ \A i \in DOMAIN q :
                    q[i].word = word /\ \E k \in mine : src[k] = q[i]
              /\ \A i, j \in DOMAIN q :
                    i < j => q[i] /= q[j] /\ q[i].timestamp >= q[j].timestamp
              /\ \A k \in mine :
                    src[k] \notin Range(q)
                        => \A i \in DOMAIN q : src[k].timestamp <= q[i].timestamp
    /\ (OpStep /\ last'.op = "savePronunciationAttempt") =>
          /\ KeepsOtherAttempts(cloud.pronunciation_history,
                                cloud'.pronunciation_history, last'.args)
          /\ KeepsOtherAttempts(idb.data["pronunciation_history"],
                                idb'.data["pronunciation_history"], last'.args)

(* C21: getPronunciationHistory(word) returns at most 10 attempts, all of  *)
(* the word, newest first, the most recent ones of the store it has read;  *)
(* savePronunciationAttempt neither overwrites nor removes a stored        *)
(* attempt of another (word, timestamp) pair.                              *)
C21_PronunciationHistory == [][C21_Step]_vars

(* Twelve attempts of the word are stored; the ten returned start with one *)
(* saved in this run and end with one of an earlier session.               *)
C21_Witness ==
    /\ last.op = "getPronunciationHistory"
    /\ last.returned
    /\ prev.op = "savePronunciationAttempt"
    /\ Len(last.ret) = 10
    /\ last.ret[1].timestamp >= 1
    /\ last.ret[10].timestamp < 0
    /\ Cardinality({k \in DOMAIN AttemptsRead(last) :
                       AttemptsRead(last)[k].word = last.args.word}) = 12

----------------------------------------------------------------------------
(* Properties of failure propagation and of the round trips *)

C23_GoalsRoundTrip ==
    [][(/\ OpStep
        /\ last.op = "saveUserGoals"
        /\ last.returned
        /\ last.local = "ok"
        /\ last'.op = "getUserGoals"
        /\ last'.returned
        /\ last'.local /= "fail")
          => last'.ret = last.args]_vars

(* C24: the local write of a saveVocabProgress, toggleVocabBookmark or     *)
(* saveVocabCustomImage keeps every field of the stored local record that  *)
(* the operation does not target, whatever values the caller's card has.   *)
C24_LocalWritePreserves ==
    [][(/\ OpStep
        /\ last'.op \in {"saveVocabProgress", "toggleVocabBookmark",
                         "saveVocabCustomImage"}
        /\ last'.local = "ok")
          => KeptExcept(idb.data["vocabulary"], idb'.data["vocabulary"],
                        Target(last'.op))]_vars

----------------------------------------------------------------------------
(* Properties of the weekday histogram *)

(* The records a getVocabStats that ran last has fetched. *)
VocabRead(l, remote, local) ==
    IF l.local = "skipped" THEN remote.vocabulary
    ELSE IF l.local = "ok" THEN local.data["vocabulary"]
    ELSE Empty

RECURSIVE TotalWords(_)
TotalWords(entries) ==
    IF entries = <<>> THEN 0
    ELSE entries[1].words + TotalWords(Tail(entries))

(* The entries are the seven weekday names, from six days ago to today. *)
SevenDays(entries, time) ==
    /\ Len(entries) = 7
    /\ {entries[i].name : i \in 1..7} = Range(WeekdayNames)
    /\ \A i \in 1..7 : entries[i].name = weekdayOf(dateKey(time) - (7 - i))

(* C25: getVocabStats returns exactly 7 entries, one per weekday name,     *)
(* from six days ago to today; every fetched record is counted exactly     *)
(* once, in the entry of the weekday of its lastReviewed, however long ago *)
(* that was, so that the counts sum to the number of fetched records.      *)
C25_Step ==
    (OpStep /\ last'.op = "getVocabStats") =>
        LET fetched == VocabRead(last', cloud, idb')
        IN  /\ SevenDays(last'.ret, now)
            /\ \A i \in 1..7 :
                  last'.ret[i].words =
                      Cardinality({k \in DOMAIN fetched :
                          dayName(fetched[k].lastReviewed) = last'.ret[i].name})
            /\ TotalWords(last'.ret) = Cardinality(DOMAIN fetched)

C25_WeekdayHistogram == [][C25_Step]_vars

(* The part that holds: the seven entries, and every record that carries   *)
(* a lastReviewed counted once, the one of more than a week ago too.       *)
C25_DatedStep ==
    (OpStep /\ last'.op = "getVocabStats") =>
        LET fetched == VocabRead(last', cloud, idb')
            dated == {k \in DOMAIN fetched : fetched[k].lastReviewed /= NoTime}
        IN  /\ SevenDays(last'.ret, now)
            /\ TotalWords(last'.ret) = Cardinality(dated)

C25_DatedRecordsCounted == [][C25_DatedStep]_vars

----------------------------------------------------------------------------
(* Properties of the record sets *)

(* Every record of the list is still there, as it was. *)
KeptAsIs(old, new) ==
    /\ Len(old) <= Len(new)
    /\ SubSeq(new, 1, Len(old)) = old

(* Every key of the collection is still there. *)
KeptKeys(old, new) == DOMAIN old \subseteq DOMAIN new

NoneRemoved(old, new) ==
    /\ KeptAsIs(old.results, new.results)
    /\ KeptKeys(old.vocabulary, new.vocabulary)
    /\ KeptKeys(old.pronunciation_history, new.pronunciation_history)

(* C26: no operation removes a record from results, vocabulary or          *)
(* pronunciation_history of either store: the sets only grow, an           *)
(* un-bookmark keeps the vocabulary record, and a stored result record is  *)
(* never modified.                                                         *)
C26_Step ==
    /\ NoneRemoved(cloud, cloud')
    /\ NoneRemoved(idb.data, idb'.data)

C26_NoDeletion == [][C26_Step]_vars

(* The chat history was cleared and a card was un-bookmarked: the records  *)
(* of both stores are still there.                                         *)
C26_Witness ==
    /\ prev.op = "clearChatHistory"
    /\ prev.remote = "ok"
    /\ cloud.chat_history = Empty
    /\ last.op = "toggleVocabBookmark"
    /\ last.calls /= <<>>
    /\ last.calls[1].result = ResOk
    /\ last.ret = "false"
    /\ Has(cloud.vocabulary, Character)
    /\ cloud.vocabulary[Character].bookmarked = "false"
    /\ Len(cloud.results) = 2
    /\ Len(idb.data["results"]) = 2

----------------------------------------------------------------------------
(* Properties across the two stores *)

(* The number of records of the list that are newer than r. *)
Newer(recs, r) ==
    Cardinality({i \in DOMAIN recs : recs[i].timestamp > r.timestamp})

(* C27: after a saveResult(r) that completed with a healthy local store,   *)
(* a later getRecentResults includes r while fewer than 20 newer results   *)
(* exist, whichever store the write landed in and the read is served from. *)
C27_Step ==
    (/\ OpStep
     /\ last.op = "saveResult"
     /\ last.returned
     /\ last.local /= "fail"
     /\ last'.op = "getRecentResults"
     /\ last'.returned
     /\ last'.local /= "fail"
     /\ Newer(cloud'.results, last.args) < RecentLimit
     /\ Newer(idb'.data["results"], last.args) < RecentLimit)
    => \E i \in DOMAIN last'.ret : last'.ret[i] = last.args

C27_ReadYourWrites == [][C27_Step]_vars

(* The bookmarked value stored for the character, Undef when there is no   *)
(* record.                                                                 *)
StoredBookmark(docs) ==
    IF Has(docs, Character) THEN docs[Character].bookmarked ELSE Undef

(* C28: the boolean toggleVocabBookmark returns is the bookmarked value of *)
(* the record the call stored: the remote record when the remote write     *)
(* succeeded, otherwise the local one; when both writes fail the stored    *)
(* records are unchanged (a remote write that timed out may still land).   *)
C28_Step ==
    (OpStep /\ last'.op = "toggleVocabBookmark") =>
        LET remoteOk == RemoteSucceeded(last')
            timedOut == last'.calls /= <<>> /\ last'.calls[1].result = ErrTimeout
        IN  /\ last'.returned
            /\ last'.ret \in Bools
            /\ remoteOk => StoredBookmark(cloud'.vocabulary) = last'.ret
            /\ (~remoteOk /\ last'.local = "ok") =>
                   StoredBookmark(idb'.data["vocabulary"]) = last'.ret
            /\ (~remoteOk /\ last'.local /= "ok") =>
                   /\ idb'.data["vocabulary"] = idb.data["vocabulary"]
                   /\ ~timedOut => cloud'.vocabulary = cloud.vocabulary

C28_ToggleReturnsStored == [][C28_Step]_vars

(* The remote write timed out and the local record decided: the call       *)
(* un-bookmarked a stored bookmark although the card said un-bookmarked.   *)
C28_Witness ==
    /\ last.op = "toggleVocabBookmark"
    /\ last.calls /= <<>>
    /\ last.calls[1].result = ErrTimeout
    /\ last.local = "ok"
    /\ last.args.card.bookmarked = "false"
    /\ last.ret = "false"
    /\ StoredBookmark(idb.data["vocabulary"]) = "false"

(* Both writes failed and nothing was stored. *)
C28_WitnessBothFail ==
    /\ last.op = "toggleVocabBookmark"
    /\ RemoteFailed(last)
    /\ last.local = "fail"
    /\ prev.op = "none"
    /\ StoredBookmark(idb.data["vocabulary"]) = "true"
    /\ StoredBookmark(cloud.vocabulary) = "true"

----------------------------------------------------------------------------
(* Properties of concurrent saves *)

(* C29: the shared audio collection holds at most one entry per exact      *)
(* text, for any interleaving of concurrent saveCachedAudio calls.         *)
C29_OneEntryPerText ==
    \A text \in Texts :
        Cardinality(Matches(cloud.global_audio_cache, text)) <= 1

----------------------------------------------------------------------------
(* Properties of retryOperation *)

(* The errors the retry policy calls transient: 503, Overloaded, 429,      *)
(* Quota.                                                                  *)
Transient(e) ==
    \/ e.status \in {503, 429}
    \/ e.message \cap {"503", "Overloaded", "Quota"} /= {}

(* The errors that are never retried. *)
Fatal(e) ==
    \/ ~Transient(e)
    \/ e.message \cap {"INVALID_ARGUMENT", "Model tried to generate text",
                        "safety", "blocked"} /= {}

Retried(task) ==
    /\ Len(task.outcomes) <= 3
    /\ \A n \in DOMAIN task.outcomes :
          LET o == task.outcomes[n]
              isLast == n = Len(task.outcomes)
          IN  /\ ~isLast => (~o.ok /\ Transient(o.error) /\ ~Fatal(o.error))
              /\ o.ok => (isLast /\ task.pc = "returned" /\ task.ret = o.value
                           /\ o.value = n)
              /\ (~o.ok /\ Fatal(o.error)) =>
                     (isLast /\ task.pc = "thrown" /\ task.lastError = o.error)
              /\ (~o.ok /\ ~Fatal(o.error) /\ isLast) =>
                     /\ task.lastError = o.error
                     /\ task.pc \in {"wait", "call", "thrown"}
                     /\ task.pc = "thrown" <=> (n = 3 /\ task.i = 3)
                     /\ task.pc = "call" => task.i = n
    /\ task.pc = "returned" =>
          (task.outcomes /= <<>> /\ task.outcomes[Len(task.outcomes)].ok)
    /\ task.pc = "thrown" =>
          (task.outcomes /= <<>> /\ ~task.outcomes[Len(task.outcomes)].ok)

(* C30: retryOperation invokes the operation at most 3 times; it retries   *)
(* only after a transient error and rethrows at once on any other error,   *)
(* INVALID_ARGUMENT, 'Model tried to generate text' and safety blocks      *)
(* included; it returns the first successful result and, after the third   *)
(* transient failure, rethrows that last error.                            *)
C30_RetryPolicy == \A k \in DOMAIN ui.tasks : Retried(ui.tasks[k])

(* Three transient failures, and the third one was rethrown. *)
C30_Witness ==
    \E k \in DOMAIN ui.tasks :
        /\ ui.tasks[k].pc = "thrown"
        /\ Len(ui.tasks[k].outcomes) = 3
        /\ ui.tasks[k].outcomes[1].error /= ui.tasks[k].outcomes[3].error
        /\ ui.tasks[k].lastError = ui.tasks[k].outcomes[3].error
        /\ Transient(ui.tasks[k].lastError)
        /\ ui.tasks[k].delays = <<1000, 2000, 4000>>

============================================================================
